---- MODULE Spec2Model ----
(***************************************************************************)
(* A model of the multifil half-sarcomere: the crossbridge / binding-site  *)
(* kinetics of mh.py, and the boundary conditions, relaxation loop,        *)
(* reports and snapshots of hs.py.                                         *)
(*                                                                         *)
(* Numbers.  Probabilities and the uniform draw are multiples of           *)
(* 1/ProbOne.  A length is a rational <<numerator, denominator>>; the      *)
(* Poisson update rounds each result to a float of MantissaBits bits.      *)
(* Forces are multiples of 0.01 pN.                                        *)
(***************************************************************************)
EXTENDS Integers, Naturals, Sequences, FiniteSets, TLC

VARIABLES
    xb_state,      \* Head.state of every crossbridge: "free" | "loose" | "tight"
    xb_bound_to,   \* Crossbridge.bound_to: a binding site, or None
    bs_bound_to,   \* BindingSite.bound_to: a crossbridge, or None
    tm_state,      \* tropomyosin state of every binding site: 0, 1 or 2
    xb_last        \* the last Crossbridge.transition call: what it returned,
                   \* whether the site refused, what it raised

xbvars == <<xb_state, xb_bound_to, bs_bound_to, tm_state, xb_last>>

VARIABLES
    settle_pc,     \* where hs.settle is: "idle" | "loop" | "returned"
    converge,      \* hs.settle's local: what the last _single_settle returned
    thick_f,       \* node forces the thick filaments' settle reported last
    thin_f,        \* node forces the thin filaments' settle reported last
    settle_passes  \* _single_settle passes of the current settle() call

settlevars == <<settle_pc, converge, thick_f, thin_f, settle_passes>>

VARIABLES
    hs,            \* the half-sarcomere's own attributes (a record, see hs_init)
    hs_raised,     \* the exception the last operation on hs raised, or "None"
    thin_axial_min,\* min over the thin filaments of their lowest axial location
    hist,          \* bookkeeping of the assignments made to hs (see below)
    snap           \* <<to_dict() of hs, to_dict() of a half-sarcomere loaded from it>>

hsvars == <<hs, hs_raised, thin_axial_min, hist, snap>>

VARIABLES
    mh,            \* one Head and its last transition() call (see head_call)
    run,           \* the hs.run call under way: position, counters, output (see run_idle)
    report,        \* <<the report the last callback() returned>>, or <<>>
    rng,           \* the state of the numpy.random global stream (see rng_entropy)
    conv,          \* the last ls_to_d10 / d10_to_ls round trip (see conv_call)
    resolved,      \* the last resolve_address call and its outcome
    rates,         \* the last evaluation of a head's rates (see rates_call)
    phase,         \* two crossbridges evaluated in both orders (see phase_pair)
    step_pc,       \* the phase of hs.timestep under way (see StepAdvance)
    spring,        \* a Spring as constructed and parametrised (see Spring_new)
    lattice        \* the face links hs.__init__ has made so far (see lattice_none)

auxvars == <<mh, run, report, rng, conv, resolved, rates, phase, step_pc, spring, lattice>>

vars == <<xbvars, settlevars, hsvars, auxvars>>

----------------------------------------------------------------------------
(* Bounds of the model *)

NumXB == 2         \* crossbridges on the modelled thick face
NumSites == 2      \* binding sites on the opposing thin face
NumThickNodes == 2 \* crown nodes whose force a relaxation pass reports
NumThinNodes == 2  \* thin-site nodes whose force a relaxation pass reports
MaxPassCount == 3  \* the pass counter stops counting here (it caps nothing)
TdLen == 2         \* length of every time_dependence sequence
MaxTimestep == 3   \* timesteps are taken while current_timestep is below this
MantissaBits == 8  \* significant bits of a float (53 in the interpreter)

(* The unit interval is cut into cells: a uniform draw in [0,1) is the      *)
(* lower edge of its cell, a probability is a cell edge, ProbOne is 1.0.    *)
Draws == {0, 1}
ProbOne == Cardinality(Draws)
Probs == 0..ProbOne

----------------------------------------------------------------------------
(* Python's None for an object reference (crossbridges and sites are 1..N) *)
None == 0

XBs == 1..NumXB
Sites == 1..NumSites

(* Axial geometry, in units of 0.1 nm: crowns are 14.3 nm apart, binding   *)
(* sites of one thin face 37.3 nm apart.                                   *)
crown_spacing == 143
site_spacing == 373

Abs(v) == IF v < 0 THEN -v ELSE v

(* Crossbridge.axial_location: the crown the crossbridge sits on *)
axial_location(x) == (x - 1) * crown_spacing

(* BindingSite.axial_location *)
bs_axial_location(s) == (s - 1) * site_spacing

(* The x component of the unbound tip: Head.unbound_tip_loc[0] is a thermal *)
(* sample around 13.5 nm; these are the values the model draws it from.     *)
TipXs == {35, 235}

(* ThinFace.nearest(x): the site whose axial location is closest to x *)
nearest(x) ==
    CHOOSE s \in Sites :
        \A t \in Sites :
            \/ Abs(bs_axial_location(s) - x) < Abs(bs_axial_location(t) - x)
            \/ /\ Abs(bs_axial_location(s) - x) = Abs(bs_axial_location(t) - x)
               /\ s <= t

(* BindingSite.permissiveness: 1 when the tropomyosin state is 2, else 0 *)
permissiveness(tm, s) == IF tm[s] = 2 THEN 1 ELSE 0

----------------------------------------------------------------------------
(* Exact rational arithmetic: <<n, d>> with d > 0, in lowest terms *)

RECURSIVE GCD(_, _)
GCD(a, b) == IF b = 0 THEN a ELSE GCD(b, a % b)

(* The element of a one-element set.  only({f(x) : x \in {e}}) is f(e) with *)
(* e computed once.                                                          *)
only(S) == CHOOSE v \in S : TRUE

lowest_terms(n, d) ==
    LET s == IF d < 0 THEN -1 ELSE 1
        g == GCD(Abs(n), Abs(d))
    IN  <<(s * n) \div g, (s * d) \div g>>

Rat(n, d) == only({lowest_terms(x[1], x[2]) : x \in {<<n, d>>}})

RatInt(n) == <<n, 1>>
RatAdd(p, q) ==
    only({LET a == x[1]  b == x[2]
          IN  Rat(a[1] * b[2] + b[1] * a[2], a[2] * b[2]) : x \in {<<p, q>>}})
RatSub(p, q) ==
    only({LET a == x[1]  b == x[2]
          IN  Rat(a[1] * b[2] - b[1] * a[2], a[2] * b[2]) : x \in {<<p, q>>}})
RatMul(p, q) ==
    only({LET a == x[1]  b == x[2]
          IN  Rat(a[1] * b[1], a[2] * b[2]) : x \in {<<p, q>>}})
RatDiv(p, q) ==
    only({LET a == x[1]  b == x[2]
          IN  Rat(a[1] * b[2], a[2] * b[1]) : x \in {<<p, q>>}})

----------------------------------------------------------------------------
(* Head.transition: one uniform draw `check` against the probabilities of   *)
(* the two transitions out of the current state.  p_first is the            *)
(* probability of the branch tested first (_bind, _r23, _r31), p_second     *)
(* that of the branch tested second (_r21, _r32).  Returns the new state    *)
(* and the label of the transition, "None" when none happened.              *)

Head_transition_second_first(state, check, ap, p_first, p_second) ==
    IF state = "free" THEN
        IF p_first * ap > check
        THEN [state |-> "loose", trans |-> "12"]
        ELSE [state |-> state, trans |-> "None"]
    ELSE IF state = "loose" THEN
        IF (ProbOne - p_second) < check
        THEN [state |-> "free", trans |-> "21"]
        ELSE IF p_first > check
        THEN [state |-> "tight", trans |-> "23"]
        ELSE [state |-> state, trans |-> "None"]
    ELSE IF state = "tight" THEN
        IF (ProbOne - p_second) < check
        THEN [state |-> "loose", trans |-> "32"]
        ELSE IF p_first > check
        THEN [state |-> "free", trans |-> "31"]
        ELSE [state |-> state, trans |-> "None"]
    ELSE [state |-> state, trans |-> "None"]

Head_transition_always_permissive(state, check, ap, p_first, p_second) ==
    IF state = "free" THEN
        IF p_first > check
        THEN [state |-> "loose", trans |-> "12"]
        ELSE [state |-> state, trans |-> "None"]
    ELSE IF state = "loose" THEN
        IF p_first > check
        THEN [state |-> "tight", trans |-> "23"]
        ELSE IF (ProbOne - p_second) < check
        THEN [state |-> "free", trans |-> "21"]
        ELSE [state |-> state, trans |-> "None"]
    ELSE IF state = "tight" THEN
        IF p_first > check
        THEN [state |-> "free", trans |-> "31"]
        ELSE IF (ProbOne - p_second) < check
        THEN [state |-> "loose", trans |-> "32"]
        ELSE [state |-> state, trans |-> "None"]
    ELSE [state |-> state, trans |-> "None"]

Head_transition_bound_needs_permissive(state, check, ap, p_first, p_second) ==
    IF state = "free" THEN
        IF p_first * ap > check
        THEN [state |-> "loose", trans |-> "12"]
        ELSE [state |-> state, trans |-> "None"]
    ELSE IF state = "loose" THEN
        IF p_first * ap > check
        THEN [state |-> "tight", trans |-> "23"]
        ELSE IF (ProbOne - p_second) < check
        THEN [state |-> "free", trans |-> "21"]
        ELSE [state |-> state, trans |-> "None"]
    ELSE IF state = "tight" THEN
        IF p_first > check
        THEN [state |-> "free", trans |-> "31"]
        ELSE IF (ProbOne - p_second) < check
        THEN [state |-> "loose", trans |-> "32"]
        ELSE [state |-> state, trans |-> "None"]
    ELSE [state |-> state, trans |-> "None"]

Head_transition(state, check, ap, p_first, p_second) ==
    IF state = "free" THEN
        IF p_first * ap > check
        THEN [state |-> "loose", trans |-> "12"]
        ELSE [state |-> state, trans |-> "None"]
    ELSE IF state = "loose" THEN
        IF p_first > check
        THEN [state |-> "tight", trans |-> "23"]
        ELSE IF (ProbOne - p_second) < check
        THEN [state |-> "free", trans |-> "21"]
        ELSE [state |-> state, trans |-> "None"]
    ELSE IF state = "tight" THEN
        IF p_first > check
        THEN [state |-> "free", trans |-> "31"]
        ELSE IF (ProbOne - p_second) < check
        THEN [state |-> "loose", trans |-> "32"]
        ELSE [state |-> state, trans |-> "None"]
    ELSE [state |-> state, trans |-> "None"]

(* Head.transition: `check = random.rand()` is the one call of              *)
(* random.rand(), made before the state is looked at                        *)
uniform_draws(state, trans) == 1

(* Head.transition: whether the call resampled the unbound tip.  _bind      *)
(* reads unbound_tip_loc, which resamples (Spring.bop, normal draws) when   *)
(* the cached tip is not of the current timestep; _bind is called for a     *)
(* free head, and through _r21 for a loose head whose first test failed.    *)
tip_sampled(state, trans, tip_stale) ==
    IF state = "free" THEN tip_stale
    ELSE IF state = "loose" THEN trans # "23" /\ tip_stale
    ELSE FALSE

(* a Head.transition(bs, ap) call: the head's state before, the draw, the   *)
(* probabilities of the two tests of its branch, and what the call did      *)
head_call(state, check, ap, p_first, p_second, tip_stale) ==
    LET t == Head_transition(state, check, ap, p_first, p_second)
    IN  [state |-> t.state, called |-> TRUE, pre |-> state, check |-> check, ap |-> ap,
         p_first |-> p_first, p_second |-> p_second, trans |-> t.trans,
         rand |-> uniform_draws(state, t.trans),
         tip_sampled |-> tip_sampled(state, t.trans, tip_stale)]

(* Head.__init__: state "free", no call made *)
head_init ==
    [state |-> "free", called |-> FALSE, pre |-> "free", check |-> 0, ap |-> 0,
     p_first |-> 0, p_second |-> 0, trans |-> "None", rand |-> 0, tip_sampled |-> FALSE]

(* BindingSite.bind_to(xb): succeeds only when the site is free; gives the  *)
(* new site links and the value returned (the site, or None)                *)
bind_to(bs, s, x) ==
    IF bs[s] = None
    THEN [bs |-> [bs EXCEPT ![s] = x], ret |-> s]
    ELSE [bs |-> bs, ret |-> None]

(* BindingSite.unbind(): drops the link to the crossbridge, returns None *)
unbind(bs, s) == [bs |-> [bs EXCEPT ![s] = None], ret |-> None]

----------------------------------------------------------------------------
(* Crossbridge.transition on '12': self.bound_to = actin_site.bind_to(self) *)
bound_to_after_12_unchecked(actin_site, ret) == actin_site

bound_to_after_12(actin_site, ret) == ret

(* Crossbridge.transition on '12': a crossbridge the site refused goes back *)
(* to "free"                                                                *)
state_after_12_norevert(ret, head_state) == head_state

state_after_12(ret, head_state) == IF ret = None THEN "free" ELSE head_state

(* Crossbridge.transition on '21' / '31': self.bound_to = self.bound_to.unbind() *)
detach_oneside(bs, site) == [bs |-> bs, ret |-> None]

detach(bs, site) == unbind(bs, site)

(* What one Crossbridge.transition call leaves behind for the caller *)
call_record(trans, denied, raised) ==
    [trans |-> trans, denied |-> denied, raised |-> raised]

(* Crossbridge.transition, the unbound branch (bound_to is None) *)
xb_transition_unbound(x, tip_x, check, p_first, p_second) ==
    LET actin_site == nearest(axial_location(x) + tip_x)
        actin_state == permissiveness(tm_state, actin_site)
        head == Head_transition(xb_state[x], check, actin_state, p_first, p_second)
        bound == bind_to(bs_bound_to, actin_site, x)
        link == bound_to_after_12(actin_site, bound.ret)
    IN  /\ xb_bound_to[x] = None
        /\ IF head.trans = "12" THEN
               /\ bs_bound_to' = bound.bs
               /\ xb_bound_to' = [xb_bound_to EXCEPT ![x] = link]
               /\ xb_state' = [xb_state EXCEPT ![x] = state_after_12(link, head.state)]
               /\ xb_last' = call_record(head.trans, link = None, "None")
           ELSE
               /\ xb_state' = [xb_state EXCEPT ![x] = head.state]
               /\ xb_last' = call_record(head.trans, FALSE,
                                 IF head.trans = "None" THEN "None" ELSE "AssertionError")
               /\ UNCHANGED <<xb_bound_to, bs_bound_to>>
        /\ UNCHANGED tm_state

(* Crossbridge.transition, the bound branch *)
xb_transition_bound(x, check, p_first, p_second) ==
    LET site == xb_bound_to[x]
        actin_state == permissiveness(tm_state, site)
        head == Head_transition(xb_state[x], check, actin_state, p_first, p_second)
        freed == detach(bs_bound_to, site)
    IN  /\ xb_bound_to[x] # None
        /\ xb_state' = [xb_state EXCEPT ![x] = head.state]
        /\ IF head.trans \in {"21", "31"} THEN
               /\ bs_bound_to' = freed.bs
               /\ xb_bound_to' = [xb_bound_to EXCEPT ![x] = freed.ret]
               /\ xb_last' = call_record(head.trans, FALSE,
                                 IF freed.ret = None THEN "None" ELSE "AssertionError")
           ELSE
               /\ xb_last' = call_record(head.trans, FALSE,
                                 IF head.trans \in {"23", "32", "None"}
                                 THEN "None" ELSE "AssertionError")
               /\ UNCHANGED <<xb_bound_to, bs_bound_to>>
        /\ UNCHANGED tm_state

(* Crossbridge.transition *)
xb_transition(x, tip_x, check, p_first, p_second) ==
    \/ xb_transition_unbound(x, tip_x, check, p_first, p_second)
    \/ xb_transition_bound(x, check, p_first, p_second)

(* A tropomyosin site moves to another of its three states *)
tm_transition(s, new) ==
    /\ new # tm_state[s]
    /\ tm_state' = [tm_state EXCEPT ![s] = new]
    /\ UNCHANGED <<xb_state, xb_bound_to, bs_bound_to, xb_last>>

----------------------------------------------------------------------------
(* Head.numeric_state: {"free": 0, "loose": 1, "tight": 2} *)
numeric_state_shifted(state) ==
    IF state = "free" THEN 0 ELSE IF state = "loose" THEN 1 ELSE 3

numeric_state(state) ==
    IF state = "free" THEN 0 ELSE IF state = "loose" THEN 1 ELSE 2

(* ThickFilament.get_states, flattened: the numeric state of every crossbridge *)
get_states(xs) == [x \in XBs |-> numeric_state(xs[x])]

(* hs.get_frac_in_states: for each of the states 0, 1, 2 the number of      *)
(* crossbridges in it over the number of crossbridges                       *)
get_frac_in_states(xs) ==
    LET xb_states == get_states(xs)
        num_in_state == [state \in 0..2 |->
                            Cardinality({x \in XBs : xb_states[x] = state})]
    IN  [state \in 0..2 |-> Rat(num_in_state[state], Cardinality(XBs))]

----------------------------------------------------------------------------
(* Relaxation.  Forces are in units of 0.01 pN. *)

ThickNodes == 1..NumThickNodes
ThinNodes == 1..NumThinNodes

(* The node forces a filament's settle(factor) can report *)
Forces == {-13, 0, 12}

(* hs.settle: converge_limit = 0.12 *)
converge_limit == 12

Max(a, b) == IF a >= b THEN a ELSE b

(* np.max(np.abs(f)) *)
max_abs(f) == CHOOSE m \in {Abs(f[n]) : n \in DOMAIN f} :
                  \A n \in DOMAIN f : Abs(f[n]) <= m

(* hs._single_settle: the largest absolute force among the thick and the    *)
(* thin nodes, as the filaments' settle(factor) returned them               *)
single_settle(thick, thin) == Max(max_abs(thick), max_abs(thin))

(* hs.settle: `while converge > converge_limit` *)
keep_settling_once(c) == FALSE

keep_settling(c) == c > converge_limit

count_pass(n) == IF n < MaxPassCount THEN n + 1 ELSE n

(* hs.settle, first statement: converge = self._single_settle() *)
settle_first(thick, thin) ==
    /\ settle_pc \in {"idle", "returned"}
    /\ thick_f' = thick
    /\ thin_f' = thin
    /\ converge' = single_settle(thick, thin)
    /\ settle_passes' = 1
    /\ settle_pc' = "loop"

(* hs.settle, loop body: converge = self._single_settle() *)
settle_again(thick, thin) ==
    /\ settle_pc = "loop"
    /\ keep_settling(converge)
    /\ thick_f' = thick
    /\ thin_f' = thin
    /\ converge' = single_settle(thick, thin)
    /\ settle_passes' = count_pass(settle_passes)
    /\ settle_pc' = "loop"

(* hs.settle: the loop condition fails and settle returns *)
settle_return ==
    /\ settle_pc = "loop"
    /\ ~keep_settling(converge)
    /\ settle_pc' = "returned"
    /\ UNCHANGED <<converge, thick_f, thin_f, settle_passes>>

----------------------------------------------------------------------------
(* The half-sarcomere's boundary conditions.                                *)
(*                                                                          *)
(* Lengths are in nm: z_line an integer, lattice_spacing a rational.  The   *)
(* Poisson ratio is counted in halves (poisson_ratio = 1 is nu = 0.5), and  *)
(* the z-lines of the model are squares, so that (z_0 / z) ^ nu is an exact *)
(* rational.  A time_dependence is a record of three sequences; the empty   *)
(* sequence is a key that is not in the dictionary.  Python's index i is    *)
(* position i + 1 of a sequence.                                            *)

RECURSIVE RatPow(_, _)
RatPow(r, k) ==
    IF k = 0 THEN RatInt(1)
    ELSE IF k < 0 THEN RatPow(RatDiv(RatInt(1), r), -k)
    ELSE RatMul(r, RatPow(r, k - 1))

ISqrt(n) == CHOOSE k \in 0..n : k * k = n
RatSqrt(r) == <<ISqrt(r[1]), ISqrt(r[2])>>

(* r ** nu for nu = halves / 2 *)
pow_half(r, halves) ==
    IF halves % 2 = 0 THEN RatPow(r, halves \div 2) ELSE RatPow(RatSqrt(r), halves)

(* Floating point: a float is a rational m * 2^e with m of at most          *)
(* MantissaBits bits; every operation returns the float nearest to the      *)
(* exact result, ties to the even mantissa.                                 *)
Exponents == (-(MantissaBits + 2))..2

round_half_even(n, d) ==
    LET q == n \div d
        rem == n % d
    IN  IF 2 * rem > d THEN q + 1
        ELSE IF 2 * rem < d THEN q
        ELSE IF q % 2 = 0 THEN q ELSE q + 1

nearest_float(num, d) ==
    IF num = 0 THEN <<0, 1>>
    ELSE LET n == Abs(num)
             up(e) == IF e < 0 THEN 2 ^ (-e) ELSE 1
             down(e) == IF e > 0 THEN 2 ^ e ELSE 1
             e == CHOOSE x \in Exponents :
                      /\ 2 ^ (MantissaBits - 1) * d * down(x) <= n * up(x)
                      /\ n * up(x) < 2 ^ MantissaBits * d * down(x)
             m == round_half_even(n * up(e), d * down(e))
             v == Rat(m * down(e), up(e))
         IN  IF num < 0 THEN <<-v[1], v[2]>> ELSE v

float(r) == only({nearest_float(x[1], x[2]) : x \in {r}})

float_add(p, q) == float(RatAdd(p, q))
float_sub(p, q) == float(RatSub(p, q))
float_mul(p, q) == float(RatMul(p, q))
(* (z_0 / z) ** nu for nu = halves / 2 *)
float_pow(z_0, z, halves) == float(pow_half(Rat(z_0, z), halves))

(* 14.0, and the next float above it: its sum with 12.5 is not a float (as  *)
(* 10.1 + 12.5 is not in double precision)                                  *)
LatticeSpacings == {RatInt(14), RatAdd(RatInt(14), Rat(1, 2 ^ (MantissaBits - 4)))}
ZLines == {900, 1600}
PoissonRatios == {-1, 0, 1, 2}
AxialMins == {130, 131}

Traces(V) == [1..TdLen -> V]

alternate(a, b) == [i \in 1..TdLen |-> IF i % 2 = 1 THEN a ELSE b]

(* time_dependence: any lattice_spacing and z_line sequences (the two keys *)
(* that act on each other), and one pCa sequence or none                   *)
TimeDependences ==
    [lattice_spacing : Traces(LatticeSpacings) \cup {<<>>},
     z_line : Traces(ZLines) \cup {<<>>},
     pCa : {alternate(4, 9), <<>>}]

(* time_dependence=None *)
NoTimeDependence == [lattice_spacing |-> <<>>, z_line |-> <<>>, pCa |-> <<>>]

(* ti_params: None, or a pair (a, b) *)
NoTitinParams == [given |-> FALSE, a |-> 0, b |-> 0]
TitinParams == {NoTitinParams, [given |-> TRUE, a |-> 240, b |-> 5]}

(* hs.update_ls_from_poisson_ratio: the lattice spacing that follows from   *)
(* the initial lattice spacing, the initial z-line, the Poisson ratio and   *)
(* the current z-line                                                       *)
poisson_ls_from_current(h) ==
    LET beta == Rat(9 + 16, 2)
        ls_0 == h.lattice_spacing
        z_0 == h.initial_z_line
        nu == h.poisson_ratio
        dz == h.z_line - z_0
    IN  float_sub(float_mul(float_add(ls_0, beta), float_pow(z_0, z_0 + dz, nu)), beta)

poisson_ls_no_exponent(h) ==
    LET beta == Rat(9 + 16, 2)
        ls_0 == h.initial_lattice_spacing
        z_0 == h.initial_z_line
        dz == h.z_line - z_0
    IN  float_sub(float_mul(float_add(ls_0, beta), float_pow(z_0, z_0 + dz, 2)), beta)

poisson_ls(h) ==
    LET beta == Rat(9 + 16, 2)
        ls_0 == h.initial_lattice_spacing
        z_0 == h.initial_z_line
        nu == h.poisson_ratio
        dz == h.z_line - z_0
    IN  float_sub(float_mul(float_add(ls_0, beta), float_pow(z_0, z_0 + dz, nu)), beta)

update_ls_from_poisson_ratio(h) ==
    only({[x EXCEPT !.lattice_spacing = poisson_ls(x)] : x \in {h}})

(* hs.update_volume.  The fluid volume is                                   *)
(*   (6 * sqrt(3) * edge * edge * length - filament_volume) * 1e-24         *)
(* with edge = 9/2 + 16/2 + ls; the model keeps edge * edge * length, of    *)
(* which the fluid volume is a strictly increasing function.                *)
volume_of(ls, length) ==
    LET edge == RatAdd(RatAdd(Rat(9, 2), Rat(16, 2)), ls)
    IN  RatMul(RatMul(edge, edge), RatInt(length))

update_volume(h) ==
    only({[x EXCEPT !.volume = volume_of(x.lattice_spacing, x.z_line)] : x \in {h}})

(* hs.lattice_spacing setter *)
lattice_spacing_set(h, new_lattice_spacing) ==
    [h EXCEPT !.lattice_spacing = new_lattice_spacing]

(* hs.z_line setter *)
z_line_set(h, new_z_line) ==
    update_volume(update_ls_from_poisson_ratio([h EXCEPT !.z_line = new_z_line]))

(* hs.update_hiding_line *)
update_hiding_line(h, farthest_actin) == [h EXCEPT !.hiding_line = -farthest_actin]

HasKey(td, key) == td[key] # <<>>
InRange(td, key, i) == i + 1 <= Len(td[key])

(* hs.current_timestep setter: the hiding line, then the boundary           *)
(* conditions of index i, then _current_timestep.  Reading past the end of  *)
(* a sequence raises IndexError and leaves the rest undone.                 *)
timestep_boundary_conditions(h0, i) ==
    LET td == h0.time_dependence
        ls_ok == ~HasKey(td, "lattice_spacing") \/ InRange(td, "lattice_spacing", i)
        h1 == IF HasKey(td, "lattice_spacing") /\ ls_ok
              THEN lattice_spacing_set(h0, td.lattice_spacing[i + 1]) ELSE h0
        z_ok == ~HasKey(td, "z_line") \/ InRange(td, "z_line", i)
        h2 == IF HasKey(td, "z_line") /\ z_ok
              THEN z_line_set(h1, td.z_line[i + 1]) ELSE h1
        p_ok == ~HasKey(td, "pCa") \/ InRange(td, "pCa", i)
        h3 == IF HasKey(td, "pCa") /\ p_ok
              THEN [h2 EXCEPT !.pCa = td.pCa[i + 1]] ELSE h2
    IN  IF ~ls_ok THEN [hs |-> h0, raised |-> "IndexError"]
        ELSE IF ~z_ok THEN [hs |-> h1, raised |-> "IndexError"]
        ELSE IF ~p_ok THEN [hs |-> h2, raised |-> "IndexError"]
        ELSE [hs |-> [h3 EXCEPT !.current_timestep = i], raised |-> "None"]

current_timestep_set(h, farthest_actin, i) ==
    only({timestep_boundary_conditions(h0, i) : h0 \in {update_hiding_line(h, farthest_actin)}})

(* Values of c_tn / c_tnca (None, or count / volume) and of c_ca (None,     *)
(* the 1-tuple (None,), or 10 ** exp)                                       *)
NoConcentration == [kind |-> "None", count |-> 0, volume |-> RatInt(0)]
TupleOfNone == [kind |-> "tuple", exp |-> 0]

(* hs._concentration: count / volume *)
concentration(count, volume) ==
    [kind |-> "float", count |-> count,
     volume |-> IF count = 0 THEN RatInt(0) ELSE volume]

(* hs._tnca_count, hs._tn_total, hs._tn_count *)
tnca_count(tm) == Cardinality({s \in Sites : tm[s] # 0})
tn_total == Cardinality(Sites)
tn_count(tm) == tn_total - tnca_count(tm)

(* hs.update_concentrations *)
update_concentrations_keep_ca(h, tm) ==
    only({[x EXCEPT !.c_tn = concentration(tn_count(tm), x.volume),
                    !.c_tnca = concentration(tnca_count(tm), x.volume)] : x \in {h}})

update_concentrations(h, tm) ==
    only({[x EXCEPT !.c_tn = concentration(tn_count(tm), x.volume),
                    !.c_ca = [kind |-> "float", exp |-> -x.pCa],
                    !.c_tnca = concentration(tnca_count(tm), x.volume)] : x \in {h}})

(* hs.__init__ up to `self.current_timestep = 0` (the attributes that the  *)
(* statements after it set are already in place)                            *)
hs_init_attrs(lattice_spacing, z_line, poisson, pCa, time_dependence, ti_params, farthest_actin) ==
    LET td == time_dependence
        ls == IF HasKey(td, "lattice_spacing") THEN td.lattice_spacing[1] ELSE lattice_spacing
        z == IF HasKey(td, "z_line") THEN td.z_line[1] ELSE z_line
        p == IF HasKey(td, "pCa") THEN td.pCa[1] ELSE pCa
        blank == [version |-> 14,
                  time_dependence |-> td,
                  initial_z_line |-> z,
                  initial_lattice_spacing |-> ls,
                  poisson_ratio |-> poisson,
                  lattice_spacing |-> ls,
                  z_line |-> z,
                  pCa |-> p,
                  hiding_line |-> 0,
                  titin |-> ti_params,
                  current_timestep |-> 0,
                  c_tn |-> NoConcentration,
                  c_ca |-> TupleOfNone,
                  c_tnca |-> NoConcentration,
                  last_transitions |-> "None",
                  volume |-> RatInt(0)]
        h1 == z_line_set(lattice_spacing_set(blank, ls), z)
    IN  update_hiding_line(h1, farthest_actin)

(* hs.__init__ *)
hs_init(lattice_spacing, z_line, poisson, pCa, time_dependence, ti_params, farthest_actin) ==
    LET h2 == hs_init_attrs(lattice_spacing, z_line, poisson, pCa, time_dependence,
                            ti_params, farthest_actin)
        h3 == current_timestep_set(h2, farthest_actin, 0).hs
    IN  update_volume(h3)

(* hs.timestep, the statements that write the half-sarcomere's own          *)
(* attributes: current_timestep += 1, last_transitions and                  *)
(* update_concentrations.  The filaments' transitions and the relaxation    *)
(* it calls are the crossbridge, tropomyosin and settle actions.            *)
hs_timestep(h, farthest_actin, tm) ==
    only({IF set.raised # "None" THEN set
          ELSE [hs |-> update_concentrations(
                           [set.hs EXCEPT !.last_transitions = "list"], tm),
                raised |-> "None"] :
          set \in {current_timestep_set(h, farthest_actin, h.current_timestep + 1)}})

----------------------------------------------------------------------------
(* Snapshots *)

(* hs.to_dict, with what thin.to_dict() keeps of the tropomyosin sites *)
to_dict(h, tm) == [sarc |-> h, tm |-> tm]

(* hs.from_dict: a new __init__ from the initial values, then               *)
(* current_timestep, _z_line, _lattice_spacing, hiding_line and             *)
(* last_transitions from the snapshot; thin.from_dict restores the          *)
(* tropomyosin sites.                                                       *)
from_dict(sd, farthest_actin) ==
    LET fresh == hs_init(sd.sarc.initial_lattice_spacing, sd.sarc.initial_z_line,
                         sd.sarc.poisson_ratio, sd.sarc.pCa, sd.sarc.time_dependence,
                         NoTitinParams, farthest_actin)
        timed == current_timestep_set(fresh, farthest_actin, sd.sarc.current_timestep).hs
        h == [timed EXCEPT !.z_line = sd.sarc.z_line,
                           !.lattice_spacing = sd.sarc.lattice_spacing,
                           !.hiding_line = sd.sarc.hiding_line,
                           !.last_transitions = sd.sarc.last_transitions]
    IN  [hs |-> h, tm |-> sd.tm]

----------------------------------------------------------------------------
(* Bookkeeping of assignments.  z_repeat counts the assignments of one and  *)
(* the same value to z_line made in a row, with no assignment to            *)
(* lattice_spacing in between (0: lattice_spacing was assigned last; it     *)
(* stops at 2); ls_first is the lattice spacing the first of them left;     *)
(* ts_fresh says that nothing was assigned since current_timestep was set.  *)

hist_after_ls(hi) == [hi EXCEPT !.z_repeat = 0, !.ls_first = RatInt(0)]

hist_after_z(hi, before, after) ==
    IF hi.z_repeat >= 1 /\ before.z_line = after.z_line
    THEN [hi EXCEPT !.z_repeat = 2]
    ELSE [hi EXCEPT !.z_repeat = 1, !.ls_first = after.lattice_spacing]

(* the assignments a current_timestep setter call with index i made *)
hist_after_ts(hi, before, set, i) ==
    LET td == before.time_dependence
        did_ls == HasKey(td, "lattice_spacing") /\ InRange(td, "lattice_spacing", i)
        did_z == did_ls \/ ~HasKey(td, "lattice_spacing")
        h1 == IF did_ls THEN hist_after_ls(hi) ELSE hi
        h2 == IF HasKey(td, "z_line") /\ InRange(td, "z_line", i) /\ did_z
              THEN hist_after_z(h1, before, set.hs) ELSE h1
    IN  [h2 EXCEPT !.ts_fresh = (set.raised = "None")]

----------------------------------------------------------------------------
(* hs.ls_to_d10 and hs.d10_to_ls, in floating point.  0.5 * 9 = 4.5 and     *)
(* 0.5 * 16 = 8.0 are exact, as is d10 * 2 short of overflow.               *)
float_div(p, q) == float(RatDiv(p, q))

ls_to_d10(face_dist) ==
    only({float_mul(Rat(3, 2), filcenter_dist) :
          filcenter_dist \in {float_add(float_add(face_dist, Rat(9, 2)), RatInt(8))}})

d10_to_ls_half_offset(d10) ==
    only({float_sub(filcenter_dist, Rat(9, 2)) :
          filcenter_dist \in {float_div(float_mul(d10, RatInt(2)), RatInt(3))}})

d10_to_ls(d10) ==
    only({float_sub(float_sub(filcenter_dist, Rat(9, 2)), RatInt(8)) :
          filcenter_dist \in {float_div(float_mul(d10, RatInt(2)), RatInt(3))}})

(* Lattice spacings 1.0, 1.125, ... and d10 spacings 20.0, 20.125, ...: all *)
(* floats                                                                   *)
LsInputs == {Rat(k, 8) : k \in 8..127}
D10Inputs == {Rat(k, 8) : k \in 160..255}

(* fn(input) = output, and back = the other function applied to output *)
conv_call(fn, input) ==
    only({[fn |-> fn, input |-> input, output |-> out,
           back |-> IF fn = "ls_to_d10" THEN d10_to_ls(out) ELSE ls_to_d10(out)] :
          out \in {IF fn = "ls_to_d10" THEN ls_to_d10(input) ELSE d10_to_ls(input)}})

conv_none == [fn |-> "None", input |-> RatInt(0), output |-> RatInt(0), back |-> RatInt(0)]

----------------------------------------------------------------------------
(* hs.resolve_address.  An address is <<kind, filament index, index within  *)
(* the filament>>; an entity is named by its own address, None by           *)
(* <<"None", 0, 0>>.  The half-sarcomere holds thin_count thin and          *)
(* thick_count thick filaments.                                             *)
thin_count == 8
thick_count == 4
MaxAddressIndex == 8

AddressKinds ==
    {"thin_fil", "thin_face", "bs", "tm", "tm_site", "thick_fil", "crown",
     "thick_face", "xb", "titin", "z_line", "thin"}

(* tuple indexing self.thin[i] / self.thick[i] for i >= 0 *)
tuple_item(length, i) == IF i < length THEN "item" ELSE "IndexError"

resolution(address, result, raised, warned) ==
    [called |-> TRUE, address |-> address, result |-> result, raised |-> raised,
     warned |-> warned]

(* the filament's own resolve_address gives the entity of the address *)
filament_resolve_address(address) == address

resolve_address(address) ==
    LET kind == address[1]
        found(length, entity) ==
            IF tuple_item(length, address[2]) = "item"
            THEN resolution(address, entity, "None", FALSE)
            ELSE resolution(address, <<"None", 0, 0>>, "IndexError", FALSE)
    IN  IF kind = "thin_fil" THEN found(thin_count, <<kind, address[2], 0>>)
        ELSE IF kind \in {"thin_face", "bs", "tm", "tm_site"}
        THEN found(thin_count, filament_resolve_address(address))
        ELSE IF kind = "thick_fil" THEN found(thick_count, <<kind, address[2], 0>>)
        ELSE IF kind \in {"crown", "thick_face", "xb"}
        THEN found(thick_count, filament_resolve_address(address))
        ELSE resolution(address, <<"None", 0, 0>>, "None", TRUE)

----------------------------------------------------------------------------
(* Head._r21, Head._r32 and Head._free_energy.  A rate or an exponential is *)
(* a float >= 0, held as its kind ("zero", "pos", "inf", or the exception   *)
(* raised in computing it) and, for "pos", its natural logarithm; energies  *)
(* are in units of kT.  m.exp overflows above ExpOverflow and underflows to *)
(* 0.0 below -ExpUnderflow (709 and 745 in double precision), and so does a *)
(* quotient.                                                                *)
ExpOverflow == 5
ExpUnderflow == 6
MaxEnergy == 8

Zero == [kind |-> "zero", log |-> 0]
Pos(l) == [kind |-> "pos", log |-> l]
Inf == [kind |-> "inf", log |-> 0]
Raised(exc) == [kind |-> exc, log |-> 0]

m_exp(x) ==
    IF x > ExpOverflow THEN Raised("OverflowError")
    ELSE IF x < -ExpUnderflow THEN Zero
    ELSE Pos(x)

(* a / b for floats a >= 0, b >= 0 *)
true_divide(a, b) ==
    IF b.kind = "zero" THEN Raised("ZeroDivisionError")
    ELSE IF a.kind = "zero" THEN Zero
    ELSE IF a.log - b.log > ExpOverflow THEN Inf
    ELSE IF a.log - b.log < -ExpUnderflow THEN Zero
    ELSE Pos(a.log - b.log)

(* Head._free_energy, given the energy stored in the springs *)
free_energy(energy, state, alphaDG, etaDG) ==
    IF state = "free" THEN 0
    ELSE IF state = "loose" THEN alphaDG + energy
    ELSE etaDG + energy

(* `try: rate = forward / m.exp(G_i - G_j)` and                             *)
(* `except ZeroDivisionError: rate = 1`; an OverflowError is not caught     *)
reverse_rate_swapped(forward, G_i, G_j) ==
    LET e == m_exp(G_j - G_i)
        q == true_divide(forward, e)
    IN  IF e.kind = "OverflowError" THEN e
        ELSE IF q.kind = "ZeroDivisionError" THEN Pos(0)
        ELSE q

reverse_rate(forward, G_i, G_j) ==
    LET e == m_exp(G_i - G_j)
        q == true_divide(forward, e)
    IN  IF e.kind = "OverflowError" THEN e
        ELSE IF q.kind = "ZeroDivisionError" THEN Pos(0)
        ELSE q

(* _bind(bs) and _r23(bs) depend on the geometry: any float from 0.0 up *)
ForwardRates == {Zero} \cup {Pos(l) : l \in -2..2}
Energies == 0..MaxEnergy
AlphaDGs == {-4, -3}
EtaDGs == {-9}

(* _r21 and _r32 for a tip geometry with the given spring energies and      *)
(* forward rates                                                            *)
rates_call(bind, r23, E_loose, E_tight, alphaDG, etaDG) ==
    LET G_free == free_energy(0, "free", alphaDG, etaDG)
        G_loose == free_energy(E_loose, "loose", alphaDG, etaDG)
        G_tight == free_energy(E_tight, "tight", alphaDG, etaDG)
    IN  [called |-> TRUE, G |-> <<G_free, G_loose, G_tight>>,
         r12 |-> bind, r21 |-> reverse_rate(bind, G_free, G_loose),
         r23 |-> r23, r32 |-> reverse_rate(r23, G_loose, G_tight)]

rates_none ==
    [called |-> FALSE, G |-> <<0, 0, 0>>, r12 |-> Zero, r21 |-> Zero,
     r23 |-> Zero, r32 |-> Zero]

----------------------------------------------------------------------------
(* The crossbridge phase of hs.timestep: `[thick.transition() for thick in  *)
(* self.thick]` calls Crossbridge.transition for one crossbridge after the  *)
(* other.  links is the state the calls share: every crossbridge's state    *)
(* and bound_to and every site's bound_to.                                  *)
links_of(xs, xb, bs) == [xb_state |-> xs, xb_bound_to |-> xb, bs_bound_to |-> bs]

(* Crossbridge.transition of crossbridge x on links st, with the tip sample *)
(* tip_x and the draw, bind and rate probabilities d of this step           *)
xb_call(st, tm, x, tip_x, d) ==
    IF st.xb_bound_to[x] = None THEN
        LET actin_site == nearest(axial_location(x) + tip_x)
            actin_state == permissiveness(tm, actin_site)
            head == Head_transition(st.xb_state[x], d.check, actin_state,
                                    d.p_first, d.p_second)
            bound == bind_to(st.bs_bound_to, actin_site, x)
            link == bound_to_after_12(actin_site, bound.ret)
        IN  IF head.trans = "12"
            THEN links_of([st.xb_state EXCEPT ![x] = state_after_12(link, head.state)],
                          [st.xb_bound_to EXCEPT ![x] = link], bound.bs)
            ELSE links_of([st.xb_state EXCEPT ![x] = head.state],
                          st.xb_bound_to, st.bs_bound_to)
    ELSE
        LET site == st.xb_bound_to[x]
            actin_state == permissiveness(tm, site)
            head == Head_transition(st.xb_state[x], d.check, actin_state,
                                    d.p_first, d.p_second)
            freed == detach(st.bs_bound_to, site)
        IN  IF head.trans \in {"21", "31"}
            THEN links_of([st.xb_state EXCEPT ![x] = head.state],
                          [st.xb_bound_to EXCEPT ![x] = freed.ret], freed.bs)
            ELSE links_of([st.xb_state EXCEPT ![x] = head.state],
                          st.xb_bound_to, st.bs_bound_to)

(* The site a call of x writes to, None when it writes to none: the nearest *)
(* site when a free head's draw selects '12', the held site when a bound    *)
(* head's draw selects '21' or '31'                                         *)
site_written(st, tm, x, tip_x, d) ==
    LET site == IF st.xb_bound_to[x] = None THEN nearest(axial_location(x) + tip_x)
                ELSE st.xb_bound_to[x]
        head == Head_transition(st.xb_state[x], d.check, permissiveness(tm, site),
                                d.p_first, d.p_second)
    IN  IF head.trans \in {"12", "21", "31"} THEN site ELSE None

(* One draw with its probabilities for each way through Head.transition:    *)
(* the first test passes, only the second passes, neither passes            *)
PhaseDraws ==
    {[check |-> 0, p_first |-> ProbOne, p_second |-> 0],
     [check |-> ProbOne - 1, p_first |-> 0, p_second |-> ProbOne],
     [check |-> ProbOne - 1, p_first |-> 0, p_second |-> 0]}

(* x and y evaluated in the order x, y (first) and in the order y, x        *)
(* (second) from the same links with the same samples and draws             *)
phase_pair(st, tm, x, tip_x, dx, y, tip_y, dy) ==
    only({[called |-> TRUE, x |-> x, y |-> y,
           first |-> xb_call(xb_call(s, tm, x, tip_x, dx), tm, y, tip_y, dy),
           second |-> xb_call(xb_call(s, tm, y, tip_y, dy), tm, x, tip_x, dx),
           moved |-> {z \in {x, y} :
                         xb_call(s, tm, z, IF z = x THEN tip_x ELSE tip_y,
                                 IF z = x THEN dx ELSE dy) # s},
           contended |-> /\ site_written(s, tm, x, tip_x, dx) # None
                         /\ site_written(s, tm, x, tip_x, dx) =
                                site_written(s, tm, y, tip_y, dy)] : s \in {st}})

phase_none ==
    [called |-> FALSE, x |-> 0, y |-> 0,
     first |-> links_of(<<>>, <<>>, <<>>), second |-> links_of(<<>>, <<>>, <<>>),
     moved |-> {}, contended |-> FALSE]

----------------------------------------------------------------------------
(* Spring.__init__: k_T = Boltzmann constant * temperature, in pN*nm *)
k_t == Rat(1381 * 288, 100000)

(* sqrt(x), kept exact as the number whose square is x *)
sqrt(x) == [square |-> x]

(* Spring.__init__(config).  Rests are in hundredths (of a degree for the *)
(* converter, of a nm for the globular domain).                           *)
Spring(config) ==
    [r_w |-> config.rest_weak,
     r_s |-> config.rest_strong,
     k_w |-> config.konstant_weak,
     k_s |-> config.konstant_strong,
     normalize |-> [two_pi_times |-> sqrt(RatDiv(k_t, RatInt(config.konstant_weak)))],
     stand_dev |-> sqrt(RatDiv(k_t, RatInt(config.konstant_weak)))]

(* Spring.bop: random.normal(self.r_w, self.stand_dev), the mean and the  *)
(* standard deviation the sample is drawn with                            *)
bop(sp) == [loc |-> sp.r_w, scale |-> sp.stand_dev]

(* Head.__init__: the converter and the globular domain *)
Head_springs ==
    [c |-> Spring([rest_weak |-> 4716, rest_strong |-> 7320,
                   konstant_weak |-> 40, konstant_strong |-> 40]),
     g |-> Spring([rest_weak |-> 1993, rest_strong |-> 1647,
                   konstant_weak |-> 2, konstant_strong |-> 2])]

(* Crossbridge.VALID_PARAMS, the keys _process_params pops *)
VALID_PARAMS ==
    {"mh_c_ks", "mh_c_kw", "mh_c_rw", "mh_c_rs",
     "mh_g_ks", "mh_g_kw", "mh_g_rw", "mh_g_rs", "mh_br", "mh_dr"}

(* `if key in mh_params.keys(): target = mh_params.pop(key)` *)
popped(mh_params, key, current) ==
    IF key \in DOMAIN mh_params THEN mh_params[key] ELSE current

(* Crossbridge._process_params: every key present replaces the attribute; *)
(* the keys left over are the ones __init__ prints as unknown             *)
process_params(h, mh_params) ==
    [c |-> [h.c EXCEPT !.k_s = popped(mh_params, "mh_c_ks", @),
                      !.k_w = popped(mh_params, "mh_c_kw", @),
                      !.r_w = popped(mh_params, "mh_c_rw", @),
                      !.r_s = popped(mh_params, "mh_c_rs", @)],
     g |-> [h.g EXCEPT !.k_s = popped(mh_params, "mh_g_ks", @),
                      !.k_w = popped(mh_params, "mh_g_kw", @),
                      !.r_w = popped(mh_params, "mh_g_rw", @),
                      !.r_s = popped(mh_params, "mh_g_rs", @)],
     unknown |-> DOMAIN mh_params \ VALID_PARAMS]

(* Crossbridge.__init__, the mh_iso loop: `while cum_sum < rolled_val`, in *)
(* units of 1/ProbOne; returns i                                           *)
RECURSIVE iso_index(_, _, _, _)
iso_index(profiles, rolled_val, cum_sum, i) ==
    IF cum_sum < rolled_val /\ i < Len(profiles)
    THEN iso_index(profiles, rolled_val, cum_sum + profiles[i + 1]["iso_p"], i + 1)
    ELSE i

(* a dict without one key *)
without(d, key) == [k \in DOMAIN d \ {key} |-> d[k]]

(* Crossbridge.__init__, "Handle mh_params": the profile of the cluster    *)
(* entry at this index, else the isoform profile the roll lands in (index  *)
(* i - 1, which for i = 0 is the last profile), else the keywords as given *)
profile_of(kwargs, index, rolled_val) ==
    IF kwargs.mh_cluster # <<>>
    THEN kwargs.mh_iso[kwargs.mh_cluster[index + 1] + 1]
    ELSE IF kwargs.mh_iso # <<>>
    THEN LET i == iso_index(kwargs.mh_iso, rolled_val, 0, 0)
         IN  without(kwargs.mh_iso[IF i = 0 THEN Len(kwargs.mh_iso) ELSE i], "iso_p")
    ELSE kwargs.params

(* Crossbridge.__init__(index, parent_face, thin_face, **mh_params) *)
Crossbridge(kwargs, index, rolled_val) ==
    only({[made |-> TRUE, c |-> x.c, g |-> x.g, unknown |-> x.unknown,
           given |-> DOMAIN profile_of(kwargs, index, rolled_val),
           bopped |-> "None", bop |-> bop(x.c)]
          : x \in {process_params(Head_springs, profile_of(kwargs, index, rolled_val))}})

ParamKeys == {"mh_c_kw", "mh_g_kw", "mh_c_rw", "mh_g_ks"}

ParamValues(key) ==
    IF key = "mh_c_kw" THEN {20, 40}
    ELSE IF key = "mh_g_kw" THEN {1, 2}
    ELSE IF key = "mh_c_rw" THEN {4000}
    ELSE {3}

(* keyword dicts: any subset of the keys, each with one of its values *)
Params ==
    UNION {{f \in [K -> {1, 2, 3, 20, 40, 4000}] : \A k \in K : f[k] \in ParamValues(k)}
           : K \in SUBSET ParamKeys}

with_iso_p(d) == [k \in DOMAIN d \cup {"iso_p"} |-> IF k = "iso_p" THEN 1 ELSE d[k]]

(* keywords given directly, through two mh_iso profiles of equal weight,  *)
(* or through mh_iso with an mh_cluster list naming a profile per index   *)
MhKwargs ==
    {[params |-> f, mh_iso |-> <<>>, mh_cluster |-> <<>>] : f \in Params}
    \cup {[params |-> <<>>, mh_iso |-> <<with_iso_p(f), with_iso_p(<<>>)>>, mh_cluster |-> cl]
           : f \in {q \in Params : "mh_c_rw" \notin DOMAIN q /\ "mh_g_ks" \notin DOMAIN q},
             cl \in {<<>>, <<0, 1>>}}

spring_none == [made |-> FALSE]
(* hs.__init__, `self.thick = (mf.ThickFilament(self, i, (...), start),`  *)
(* ...): row i + 1 holds, for the faces 0..5 of thick filament i, the      *)
(* <<thin filament, thin face>> handed to it                               *)
thick_thin_faces ==
    <<
      <<<<0, 1>>, <<1, 2>>, <<2, 2>>, <<6, 0>>, <<5, 0>>, <<4, 1>>>>,
      <<<<2, 1>>, <<3, 2>>, <<0, 2>>, <<4, 0>>, <<7, 0>>, <<6, 1>>>>,
      <<<<5, 1>>, <<6, 2>>, <<7, 2>>, <<3, 0>>, <<2, 0>>, <<1, 1>>>>,
      <<<<7, 1>>, <<4, 2>>, <<5, 2>>, <<1, 0>>, <<0, 0>>, <<3, 1>>>>
    >>

thin_thick_faces_swapped ==
    <<
      <<<<0, 0>>, <<3, 4>>, <<1, 2>>>>,
      <<<<3, 3>>, <<2, 5>>, <<0, 1>>>>,
      <<<<2, 4>>, <<1, 0>>, <<0, 2>>>>,
      <<<<2, 3>>, <<3, 5>>, <<1, 1>>>>,
      <<<<1, 3>>, <<0, 5>>, <<3, 1>>>>,
      <<<<0, 4>>, <<2, 0>>, <<3, 2>>>>,
      <<<<0, 3>>, <<1, 5>>, <<2, 1>>>>,
      <<<<1, 4>>, <<3, 0>>, <<2, 2>>>>
    >>

(* hs.__init__, `self.thin[a].set_thick_faces((...))`: row a + 1 holds,    *)
(* for the faces 0..2 of thin filament a, the <<thick filament, thick      *)
(* face>> handed to it                                                     *)
thin_thick_faces ==
    <<
      <<<<3, 4>>, <<0, 0>>, <<1, 2>>>>,
      <<<<3, 3>>, <<2, 5>>, <<0, 1>>>>,
      <<<<2, 4>>, <<1, 0>>, <<0, 2>>>>,
      <<<<2, 3>>, <<3, 5>>, <<1, 1>>>>,
      <<<<1, 3>>, <<0, 5>>, <<3, 1>>>>,
      <<<<0, 4>>, <<2, 0>>, <<3, 2>>>>,
      <<<<0, 3>>, <<1, 5>>, <<2, 1>>>>,
      <<<<1, 4>>, <<3, 0>>, <<2, 2>>>>
    >>

(* hs.__init__, `self.titin = (ti.Titin(self, n, ti_thick(i, j),           *)
(* ti_thin(a, b), a=a, b=b), ...)`: entry n + 1 is <<<<i, j>>, <<a, b>>>>  *)
titin_faces ==
    <<
      <<<<0, 0>>, <<0, 1>>>>, <<<<0, 1>>, <<1, 2>>>>, <<<<0, 2>>, <<2, 2>>>>,
      <<<<1, 0>>, <<2, 1>>>>, <<<<1, 1>>, <<3, 2>>>>, <<<<1, 2>>, <<0, 2>>>>,
      <<<<0, 5>>, <<4, 1>>>>, <<<<0, 4>>, <<5, 0>>>>, <<<<0, 3>>, <<6, 0>>>>,
      <<<<1, 5>>, <<6, 1>>>>, <<<<1, 4>>, <<7, 0>>>>, <<<<1, 3>>, <<4, 0>>>>,
      <<<<2, 0>>, <<5, 1>>>>, <<<<2, 1>>, <<6, 2>>>>, <<<<2, 2>>, <<7, 2>>>>,
      <<<<3, 0>>, <<7, 1>>>>, <<<<3, 1>>, <<4, 2>>>>, <<<<3, 2>>, <<5, 2>>>>,
      <<<<2, 5>>, <<1, 1>>>>, <<<<2, 4>>, <<2, 0>>>>, <<<<2, 3>>, <<3, 0>>>>,
      <<<<3, 5>>, <<3, 1>>>>, <<<<3, 4>>, <<0, 0>>>>, <<<<3, 3>>, <<1, 0>>>>
    >>

(* the filaments and titins hs.__init__ has made so far, each with the    *)
(* faces it was given; "linked" once the last titin is in place           *)
lattice_none == [made |-> FALSE, thick |-> <<>>, thin |-> <<>>, titin |-> <<>>]

lattice_linked(l) ==
    /\ Len(l.thick) = Len(thick_thin_faces)
    /\ Len(l.thin) = Len(thin_thick_faces)
    /\ Len(l.titin) = Len(titin_faces)

----------------------------------------------------------------------------
(* The numpy.random global stream.  mh imports numpy.random as random, so   *)
(* random.seed() there and np.random.seed(None) in hs are the same call:    *)
(* both reseed the one global stream from operating-system entropy.         *)
MaxDraws == 4
MaxObjects == 6
Seeds == 1..2

(* origin: who seeded the stream last; seed: the seed given (0: entropy);   *)
(* pos: draws made since; user_seed: the seed of the last                   *)
(* numpy.random.seed(k) call of the caller (0: none yet); objects:          *)
(* constructor calls made since                                             *)
rng_entropy(user_seed, objects) ==
    [origin |-> "entropy", seed |-> 0, pos |-> 0, user_seed |-> user_seed,
     objects |-> objects]

rng_user(k) ==
    [origin |-> "user", seed |-> k, pos |-> 0, user_seed |-> k, objects |-> 0]

(* `random.seed()  # Ensure proper seeding` / np.random.seed(None) *)
random_seed(r, objects) == rng_entropy(r.user_seed, objects)

(* random.rand(), random.normal(), np.random.randint() *)
random_draw(r) == [r EXCEPT !.pos = @ + 1]

Spring_init(r) == random_seed(r, r.objects + 1)
Head_init(r) == Spring_init(Spring_init(random_seed(r, r.objects + 1)))
Crossbridge_init(r) == random_seed(Head_init(r), Head_init(r).objects + 1)

----------------------------------------------------------------------------
(* Reports and hs.run *)

(* The keys of the report hs.tm_report returns, in the order it inserts them *)
report_keys ==
    <<"r_12", "r_21", "r_23", "r_32", "r_31", "r_13",
      "coop", "axial_force", "ca",
      "xb_fraction_free", "xb_fraction_loose", "xb_fraction_tight",
      "free_tm", "free_ca", "bound_tm">>

(* hs.tm_report.  The mean tropomyosin rates, the cooperativity fraction    *)
(* and the axial force are floats computed by the filaments; the report     *)
(* holds them as "float".                                                   *)
tm_report(h, xs, tm) ==
    LET xb_fracs == get_frac_in_states(xs)
    IN  [r_12 |-> "float", r_21 |-> "float", r_23 |-> "float",
         r_32 |-> "float", r_31 |-> "float", r_13 |-> "float",
         coop |-> "float", axial_force |-> "float", ca |-> h.c_ca,
         xb_fraction_free |-> xb_fracs[0],
         xb_fraction_loose |-> xb_fracs[1],
         xb_fraction_tight |-> xb_fracs[2],
         free_tm |-> h.c_tn, free_ca |-> h.c_ca, bound_tm |-> h.c_tnca]

(* The statements of the try block of hs.run, in the order of execution;    *)
(* the first six are those of hs.timestep (the first two: the               *)
(* current_timestep setter).  run.pc names the statement about to execute.  *)
TryPcs ==
    {"hiding_line", "boundary_conditions", "crossbridges", "concentrations",
     "tropomyosin", "settle", "callback", "append", "bar"}

(* No hs.run call made.  lens[k]: the length of output[report_keys[k]];     *)
(* appended: the keys _append has stored of the current report;             *)
(* started: timestep() calls made; completed: steps whose report is stored  *)
(* in full; phases: the statements the current step has finished;           *)
(* status: the exit status returned (-1: none).                             *)
run_idle ==
    [pc |-> "idle", time_steps |-> 0, i |-> 0,
     lens |-> [k \in 1..Len(report_keys) |-> 0], appended |-> 0,
     status |-> -1, phases |-> <<>>, started |-> 0, completed |-> 0,
     raised |-> "None", raised_pc |-> "None"]

(* hs.run: `except KeyboardInterrupt: return output, 130` and               *)
(* `except Exception: return output, 1`                                     *)
exit_status_one(exc) == 1

exit_status(exc) == IF exc = "KeyboardInterrupt" THEN 130 ELSE 1

run_except(r, exc) ==
    [r EXCEPT !.pc = "returned", !.status = exit_status(exc),
              !.raised = exc, !.raised_pc = r.pc]

(* the statement at r.pc finished; next is the one to execute *)
phase_done(r, next) == [r EXCEPT !.phases = Append(@, r.pc), !.pc = next]

(* hs.run: `for i in range(time_steps)` and `return output, 0` *)
run_for(r) ==
    IF r.i < r.time_steps
    THEN [r EXCEPT !.pc = "hiding_line", !.started = @ + 1, !.phases = <<>>]
    ELSE [r EXCEPT !.pc = "returned", !.status = 0]

(* hs._append, one key: dictionary[key].append(value), or                   *)
(* dictionary.update({key: [value]}) for a key not yet there                *)
append_key(r) ==
    LET k == r.appended + 1
        last == k = Len(report_keys)
    IN  [r EXCEPT !.lens[k] = IF @ > 0 THEN @ + 1 ELSE 1,
                  !.appended = k,
                  !.completed = IF last THEN @ + 1 ELSE @,
                  !.phases = IF last THEN Append(@, "append") ELSE @,
                  !.pc = IF last THEN "bar" ELSE "append"]

----------------------------------------------------------------------------
(* After construction: every head free, nothing bound, tropomyosin blocked, *)
(* settle() not yet called                                                   *)
InitFilaments ==
    /\ xb_state = [x \in XBs |-> "free"]
    /\ xb_bound_to = [x \in XBs |-> None]
    /\ bs_bound_to = [s \in Sites |-> None]
    /\ tm_state = [s \in Sites |-> 0]
    /\ xb_last = call_record("None", FALSE, "None")
    /\ settle_pc = "idle"
    /\ converge = 0
    /\ thick_f = [n \in ThickNodes |-> 0]
    /\ thin_f = [n \in ThinNodes |-> 0]
    /\ settle_passes = 0
    /\ mh = head_init
    /\ run = run_idle
    /\ report = <<>>
    /\ rng = rng_entropy(0, 0)
    /\ conv = conv_none
    /\ resolved = [called |-> FALSE, address |-> <<"None", 0, 0>>,
                   result |-> <<"None", 0, 0>>, raised |-> "None", warned |-> FALSE]
    /\ rates = rates_none
    /\ phase = phase_none
    /\ step_pc = "crossbridges"
    /\ spring = spring_none
    /\ lattice = lattice_none

(* hs(lattice_spacing, z_line, poisson, pCa, time_dependence, ti_params) *)
construct(lattice_spacing, z_line, poisson, pCa, time_dependence, ti_params) ==
    \E farthest_actin \in {a \in AxialMins : \A b \in AxialMins : a <= b} :
    \E attrs \in {hs_init_attrs(lattice_spacing, z_line, poisson, pCa, time_dependence,
                                ti_params, farthest_actin)} :
    \E set \in {current_timestep_set(attrs, farthest_actin, 0)} :
        /\ thin_axial_min = farthest_actin
        /\ hs = hs_init(lattice_spacing, z_line, poisson, pCa, time_dependence,
                        ti_params, farthest_actin)
        /\ hs_raised = "None"
        /\ hist = hist_after_ts([z_repeat |-> 1, ls_first |-> attrs.lattice_spacing,
                                 ts_fresh |-> FALSE], attrs, set, 0)
        /\ snap = <<>>

(* hs(): lattice spacing 14.0, z-line 1250, Poisson ratio 0.0, pCa 4.0 *)
Init ==
    /\ InitFilaments
    /\ construct(RatInt(14), 1250, 0, 4, NoTimeDependence, NoTitinParams)

(* hs(lattice_spacing=ls, z_line=z, poisson=nu, time_dependence=td) with    *)
(* any lattice spacing, z-line, Poisson ratio and time_dependence; pCa at   *)
(* its default                                                              *)
InitBC ==
    /\ InitFilaments
    /\ \E ls \in LatticeSpacings, z \in ZLines, nu \in PoissonRatios,
          td \in TimeDependences :
           construct(ls, z, nu, 4, td, NoTitinParams)

RunTimeDependences ==
    [lattice_spacing : {alternate(RatInt(14), RatInt(16)), <<>>},
     z_line : {alternate(900, 1600), <<>>},
     pCa : {alternate(4, 9), <<>>}]

(* hs(...) with any Poisson ratio, titin parameters and time_dependence keys *)
InitRun ==
    /\ InitFilaments
    /\ \E nu \in PoissonRatios, td \in RunTimeDependences, ti \in TitinParams :
           construct(RatInt(14), 900, nu, 4, td, ti)

(* hs.timestep, thick.transition(): a crossbridge that is not bound tries to bind *)
XbUnboundStep ==
    /\ \E x \in XBs, tip_x \in TipXs, check \in Draws,
          p_first \in Probs, p_second \in Probs :
           xb_transition_unbound(x, tip_x, check, p_first, p_second)
    /\ UNCHANGED <<settlevars, hsvars>>
    /\ UNCHANGED auxvars

(* hs.timestep, thick.transition(): a bound crossbridge tries a transition *)
XbBoundStep ==
    /\ \E x \in XBs, check \in Draws, p_first \in Probs, p_second \in Probs :
           xb_transition_bound(x, check, p_first, p_second)
    /\ UNCHANGED <<settlevars, hsvars>>
    /\ UNCHANGED auxvars

(* hs.timestep, thin.transition() *)
TmStep ==
    /\ \E s \in Sites, new \in 0..2 : tm_transition(s, new)
    /\ snap' = <<>>
    /\ UNCHANGED <<settlevars, hs, hs_raised, thin_axial_min, hist>>
    /\ UNCHANGED auxvars

Next == XbUnboundStep \/ XbBoundStep \/ TmStep

Spec == Init /\ [][Next]_vars

(* hs.settle: the first relaxation pass; the filaments' nodes move *)
SettleFirst ==
    /\ \E thick \in [ThickNodes -> Forces], thin \in [ThinNodes -> Forces] :
           settle_first(thick, thin)
    /\ thin_axial_min' \in AxialMins
    /\ UNCHANGED <<xbvars, hs, hs_raised, hist, snap>>
    /\ UNCHANGED auxvars

(* hs.settle: one more relaxation pass *)
SettleAgain ==
    /\ \E thick \in [ThickNodes -> Forces], thin \in [ThinNodes -> Forces] :
           settle_again(thick, thin)
    /\ thin_axial_min' \in AxialMins
    /\ UNCHANGED <<xbvars, hs, hs_raised, hist, snap>>
    /\ UNCHANGED auxvars

(* hs.settle: return *)
SettleReturn == settle_return /\ UNCHANGED <<xbvars, hsvars, auxvars>>

NextSettle == SettleFirst \/ SettleAgain \/ SettleReturn

SpecSettle == Init /\ [][NextSettle]_vars

(* hs.z_line = z *)
ZLineSet ==
    /\ \E z \in ZLines : \E after \in {z_line_set(hs, z)} :
          /\ hs' = after
          /\ hist' = [hist_after_z(hist, hs, after) EXCEPT !.ts_fresh = FALSE]
    /\ hs_raised' = "None"
    /\ snap' = <<>>
    /\ UNCHANGED <<xbvars, settlevars, thin_axial_min>>
    /\ UNCHANGED auxvars

(* hs.lattice_spacing = ls *)
LatticeSpacingSet ==
    /\ \E ls \in LatticeSpacings : hs' = lattice_spacing_set(hs, ls)
    /\ hist' = [hist_after_ls(hist) EXCEPT !.ts_fresh = FALSE]
    /\ hs_raised' = "None"
    /\ snap' = <<>>
    /\ UNCHANGED <<xbvars, settlevars, thin_axial_min>>
    /\ UNCHANGED auxvars

(* hs.current_timestep = i, as hs.timestep does with i = current or i = old + 1 *)
CurrentTimestepSet ==
    /\ \E i \in 0..TdLen : \E set \in {current_timestep_set(hs, thin_axial_min, i)} :
          /\ hs' = set.hs
          /\ hs_raised' = set.raised
          /\ hist' = hist_after_ts(hist, hs, set, i)
    /\ snap' = <<>>
    /\ UNCHANGED <<xbvars, settlevars, thin_axial_min>>
    /\ UNCHANGED auxvars

NextBC == ZLineSet \/ LatticeSpacingSet \/ CurrentTimestepSet

SpecBC == InitBC /\ [][NextBC]_vars

(* hs.timestep() *)
HsTimestep ==
    /\ hs.current_timestep < MaxTimestep
    /\ \E step \in {hs_timestep(hs, thin_axial_min, tm_state)} :
          /\ hs' = step.hs
          /\ hs_raised' = step.raised
          /\ hist' = hist_after_ts(hist, hs, step, hs.current_timestep + 1)
    /\ snap' = <<>>
    /\ UNCHANGED <<xbvars, settlevars, thin_axial_min>>
    /\ UNCHANGED auxvars

(* sd = hs.to_dict(); other.from_dict(sd); other.to_dict() *)
Snapshot ==
    /\ snap = <<>>
    /\ \E sd \in {to_dict(hs, tm_state)} : \E other \in {from_dict(sd, thin_axial_min)} :
          snap' = <<sd, to_dict(other.hs, other.tm)>>
    /\ UNCHANGED <<xbvars, settlevars, hs, hs_raised, thin_axial_min, hist>>
    /\ UNCHANGED auxvars

NextRun == HsTimestep \/ TmStep \/ Snapshot

SpecRun == InitRun /\ [][NextRun]_vars

(* Head.transition(bs, ap) on a head in any state, for any draw, any site   *)
(* permissiveness and any probabilities of the rates at bs                  *)
HeadTransition ==
    /\ \E check \in Draws, ap \in {0, 1}, p_first \in Probs, p_second \in Probs,
          tip_stale \in BOOLEAN :
           mh' = head_call(mh.state, check, ap, p_first, p_second, tip_stale)
    /\ UNCHANGED <<xbvars, settlevars, hsvars, run, report, rng, conv, resolved, rates, phase,
                   step_pc, spring, lattice>>

SpecHead == Init /\ [][HeadTransition]_vars

----------------------------------------------------------------------------
(* hs.run(time_steps, callback=self.tm_report), one action per statement of *)
(* the loop; RunKeyboardInterrupt is a Ctrl-C arriving while the try block  *)
(* is executing, whatever its statement                                     *)

(* hs(time_dependence=td) with sequences of TdLen values, or without *)
InitLoop ==
    /\ InitFilaments
    /\ \E td \in RunTimeDependences :
           construct(RatInt(14), 900, 0, 4, td, NoTitinParams)

RunCall ==
    /\ run.pc = "idle"
    /\ \E time_steps \in 0..MaxTimestep :
           run' = [run_idle EXCEPT !.pc = "for", !.time_steps = time_steps]
    /\ report' = <<>>
    /\ UNCHANGED <<xbvars, settlevars, hsvars, mh, rng, conv, resolved, rates, phase,
                   step_pc, spring, lattice>>

RunFor ==
    /\ run.pc = "for"
    /\ run' = run_for(run)
    /\ UNCHANGED <<xbvars, settlevars, hsvars, mh, report, rng, conv, resolved, rates, phase,
                   step_pc, spring, lattice>>

RunHidingLine ==
    /\ run.pc = "hiding_line"
    /\ hs' = update_hiding_line(hs, thin_axial_min)
    /\ run' = phase_done(run, "boundary_conditions")
    /\ UNCHANGED <<xbvars, settlevars, hs_raised, thin_axial_min, hist, snap, mh, report, rng, conv, resolved, rates, phase,
                   step_pc, spring, lattice>>

RunBoundaryConditions ==
    /\ run.pc = "boundary_conditions"
    /\ \E set \in {timestep_boundary_conditions(hs, hs.current_timestep + 1)} :
          /\ hs' = set.hs
          /\ hs_raised' = set.raised
          /\ hist' = hist_after_ts(hist, hs, set, hs.current_timestep + 1)
          /\ run' = IF set.raised = "None" THEN phase_done(run, "crossbridges")
                    ELSE run_except(run, set.raised)
    /\ snap' = <<>>
    /\ UNCHANGED <<xbvars, settlevars, thin_axial_min, mh, report, rng, conv, resolved, rates, phase,
                   step_pc, spring, lattice>>

RunCrossbridges ==
    /\ run.pc = "crossbridges"
    /\ \E exc \in {"None", "AssertionError"} :
          IF exc = "None"
          THEN /\ hs' = [hs EXCEPT !.last_transitions = "list"]
               /\ run' = phase_done(run, "concentrations")
          ELSE /\ hs' = hs
               /\ run' = run_except(run, exc)
    /\ UNCHANGED <<xbvars, settlevars, hs_raised, thin_axial_min, hist, snap, mh, report, rng, conv, resolved, rates, phase,
                   step_pc, spring, lattice>>

RunConcentrations ==
    /\ run.pc = "concentrations"
    /\ hs' = update_concentrations(hs, tm_state)
    /\ run' = phase_done(run, "tropomyosin")
    /\ UNCHANGED <<xbvars, settlevars, hs_raised, thin_axial_min, hist, snap, mh, report, rng, conv, resolved, rates, phase,
                   step_pc, spring, lattice>>

RunTropomyosin ==
    /\ run.pc = "tropomyosin"
    /\ \E s \in Sites, new \in 0..2 : tm_state' = [tm_state EXCEPT ![s] = new]
    /\ run' = phase_done(run, "settle")
    /\ UNCHANGED <<xb_state, xb_bound_to, bs_bound_to, xb_last, settlevars, hsvars,
                   mh, report, rng, conv, resolved, rates, phase,
                   step_pc, spring, lattice>>

RunSettle ==
    /\ run.pc = "settle"
    /\ thin_axial_min' \in AxialMins
    /\ run' = phase_done(run, "callback")
    /\ UNCHANGED <<xbvars, settlevars, hs, hs_raised, hist, snap, mh, report, rng, conv, resolved, rates, phase,
                   step_pc, spring, lattice>>

RunCallback ==
    /\ run.pc = "callback"
    /\ \E exc \in {"None", "Exception"} :
          IF exc = "None"
          THEN /\ report' = <<tm_report(hs, xb_state, tm_state)>>
               /\ run' = [phase_done(run, "append") EXCEPT !.appended = 0]
          ELSE /\ report' = report
               /\ run' = run_except(run, exc)
    /\ UNCHANGED <<xbvars, settlevars, hsvars, mh, rng, conv, resolved, rates, phase,
                   step_pc, spring, lattice>>

RunAppend ==
    /\ run.pc = "append"
    /\ run' = append_key(run)
    /\ UNCHANGED <<xbvars, settlevars, hsvars, mh, report, rng, conv, resolved, rates, phase,
                   step_pc, spring, lattice>>

RunBar ==
    /\ run.pc = "bar"
    /\ \E exc \in {"None", "Exception"} :
          run' = IF exc = "None" THEN [run EXCEPT !.pc = "for", !.i = @ + 1]
                 ELSE run_except(run, exc)
    /\ UNCHANGED <<xbvars, settlevars, hsvars, mh, report, rng, conv, resolved, rates, phase,
                   step_pc, spring, lattice>>

RunKeyboardInterrupt ==
    /\ run.pc \in TryPcs
    /\ run' = run_except(run, "KeyboardInterrupt")
    /\ UNCHANGED <<xbvars, settlevars, hsvars, mh, report, rng, conv, resolved, rates, phase,
                   step_pc, spring, lattice>>

NextLoop ==
    \/ RunCall
    \/ RunFor
    \/ RunHidingLine
    \/ RunBoundaryConditions
    \/ RunCrossbridges
    \/ RunConcentrations
    \/ RunTropomyosin
    \/ RunSettle
    \/ RunCallback
    \/ RunAppend
    \/ RunBar
    \/ RunKeyboardInterrupt

SpecLoop == InitLoop /\ [][NextLoop]_vars

----------------------------------------------------------------------------
(* Seeding and drawing: the caller seeds the global stream, objects are     *)
(* constructed, draws are made                                              *)

NumpyRandomSeed ==
    /\ \E k \in Seeds : rng' = rng_user(k)
    /\ UNCHANGED <<xbvars, settlevars, hsvars, mh, run, report, conv, resolved, rates, phase,
                   step_pc, spring, lattice>>

SpringInit ==
    /\ rng.objects + 1 <= MaxObjects
    /\ rng' = Spring_init(rng)
    /\ UNCHANGED <<xbvars, settlevars, hsvars, mh, run, report, conv, resolved, rates, phase,
                   step_pc, spring, lattice>>

HeadInit ==
    /\ rng.objects + 3 <= MaxObjects
    /\ rng' = Head_init(rng)
    /\ UNCHANGED <<xbvars, settlevars, hsvars, mh, run, report, conv, resolved, rates, phase,
                   step_pc, spring, lattice>>

CrossbridgeInit ==
    /\ rng.objects + 4 <= MaxObjects
    /\ rng' = Crossbridge_init(rng)
    /\ UNCHANGED <<xbvars, settlevars, hsvars, mh, run, report, conv, resolved, rates, phase,
                   step_pc, spring, lattice>>

(* hs.__init__, also as hs.from_dict calls it: np.random.seed(None), then   *)
(* with starts=None one randint draw per filament offset                    *)
HsInit ==
    /\ rng.objects + 1 <= MaxObjects
    /\ \E starts_given \in BOOLEAN :
          rng' = IF starts_given THEN random_seed(rng, rng.objects + 1)
                 ELSE random_draw(random_seed(rng, rng.objects + 1))
    /\ UNCHANGED <<xbvars, settlevars, hsvars, mh, run, report, conv, resolved, rates, phase,
                   step_pc, spring, lattice>>

RandomDraw ==
    /\ rng.pos < MaxDraws
    /\ rng' = random_draw(rng)
    /\ UNCHANGED <<xbvars, settlevars, hsvars, mh, run, report, conv, resolved, rates, phase,
                   step_pc, spring, lattice>>

NextSeed ==
    \/ NumpyRandomSeed
    \/ SpringInit
    \/ HeadInit
    \/ CrossbridgeInit
    \/ HsInit
    \/ RandomDraw

SpecSeed == Init /\ [][NextSeed]_vars

----------------------------------------------------------------------------
(* Spacing conversions applied to any input and then inverted (static       *)
(* methods without state: one round trip is followed)                       *)

LsToD10 ==
    /\ conv.fn = "None"
    /\ \E face_dist \in LsInputs : conv' = conv_call("ls_to_d10", face_dist)
    /\ UNCHANGED <<xbvars, settlevars, hsvars, mh, run, report, rng, resolved, rates, phase,
                   step_pc, spring, lattice>>

D10ToLs ==
    /\ conv.fn = "None"
    /\ \E d10 \in D10Inputs : conv' = conv_call("d10_to_ls", d10)
    /\ UNCHANGED <<xbvars, settlevars, hsvars, mh, run, report, rng, resolved, rates, phase,
                   step_pc, spring, lattice>>

NextConv ==
    \/ LsToD10
    \/ D10ToLs

SpecConv == Init /\ [][NextConv]_vars

----------------------------------------------------------------------------
(* Address resolution *)

ResolveAddress ==
    /\ \E kind \in AddressKinds, fil \in 0..MaxAddressIndex, sub \in 0..1 :
           resolved' = resolve_address(<<kind, fil, sub>>)
    /\ UNCHANGED <<xbvars, settlevars, hsvars, mh, run, report, rng, conv, rates, phase,
                   step_pc, spring, lattice>>

SpecResolve == Init /\ [][ResolveAddress]_vars

----------------------------------------------------------------------------
(* The rates of a head at any tip geometry (the rates are functions of the  *)
(* geometry alone: one evaluation is followed)                              *)

HeadRates ==
    /\ ~rates.called
    /\ \E bind \in ForwardRates, r23 \in ForwardRates, E_loose \in Energies,
          E_tight \in Energies, alphaDG \in AlphaDGs, etaDG \in EtaDGs :
           rates' = rates_call(bind, r23, E_loose, E_tight, alphaDG, etaDG)
    /\ UNCHANGED <<xbvars, settlevars, hsvars, mh, run, report, rng, conv, resolved, phase,
                   step_pc, spring, lattice>>

SpecRates == Init /\ [][HeadRates]_vars

----------------------------------------------------------------------------
(* A timestep's crossbridge phase: after any history of transitions, two    *)
(* crossbridges are evaluated one after the other; the outcome of the other *)
(* order is computed beside it                                              *)

PhaseXbUnboundStep ==
    /\ ~phase.called
    /\ XbUnboundStep

PhaseXbBoundStep ==
    /\ ~phase.called
    /\ XbBoundStep

PhaseTmStep ==
    /\ ~phase.called
    /\ TmStep

PhasePair ==
    /\ ~phase.called
    /\ \E x \in XBs, y \in XBs, tip_x \in TipXs, tip_y \in TipXs,
          dx \in PhaseDraws, dy \in PhaseDraws :
          /\ x < y
          /\ \E pair \in {phase_pair(links_of(xb_state, xb_bound_to, bs_bound_to),
                                     tm_state, x, tip_x, dx, y, tip_y, dy)} :
                /\ phase' = pair
                /\ xb_state' = pair.first.xb_state
                /\ xb_bound_to' = pair.first.xb_bound_to
                /\ bs_bound_to' = pair.first.bs_bound_to
    /\ UNCHANGED <<tm_state, xb_last, settlevars, hsvars, mh, run, report, rng, conv,
                   resolved, rates,
                   step_pc, spring, lattice>>

NextPhase ==
    \/ PhaseXbUnboundStep
    \/ PhaseXbBoundStep
    \/ PhaseTmStep
    \/ PhasePair

SpecPhase == Init /\ [][NextPhase]_vars

----------------------------------------------------------------------------
(* hs.timestep as three phases run one after the other: thick.transition() *)
(* for every thick filament, thin.transition() for every thin filament,    *)
(* then settle().                                                           *)
timestep_phases == <<"crossbridges", "tropomyosin", "settle">>

next_phase(pc) ==
    IF pc = "crossbridges" THEN "tropomyosin"
    ELSE IF pc = "tropomyosin" THEN "settle"
    ELSE "crossbridges"

(* a statement of hs.timestep runs only when control is at it *)
in_phase_overlapping(pc, name) == pc \in {name, "settle"}

in_phase(pc, name) == pc = name

(* one crossbridge of the list comprehension at hs.py 513, not bound *)
StepXbUnbound ==
    /\ in_phase(step_pc, "crossbridges")
    /\ XbUnboundStep

(* one crossbridge of the list comprehension at hs.py 513, bound *)
StepXbBound ==
    /\ in_phase(step_pc, "crossbridges")
    /\ XbBoundStep

(* one site of the list comprehension at hs.py 517 *)
StepTm ==
    /\ in_phase(step_pc, "tropomyosin")
    /\ TmStep

(* one pass of hs._single_settle: the nodes of every filament move *)
StepSettle ==
    /\ in_phase(step_pc, "settle")
    /\ thin_axial_min' \in AxialMins
    /\ UNCHANGED <<xbvars, settlevars, hs, hs_raised, hist, snap>>
    /\ UNCHANGED auxvars

(* control passes from one statement of hs.timestep to the next, and from *)
(* the end of one timestep to the start of the following one              *)
StepAdvance ==
    /\ step_pc' = next_phase(step_pc)
    /\ UNCHANGED <<xbvars, settlevars, hsvars, mh, run, report, rng, conv, resolved, rates, phase,
                   spring, lattice>>

NextStep == StepXbUnbound \/ StepXbBound \/ StepTm \/ StepSettle \/ StepAdvance

SpecStep == Init /\ [][NextStep]_vars

----------------------------------------------------------------------------
(* A crossbridge is constructed with some keywords *)
CrossbridgeNew ==
    /\ ~spring.made
    /\ \E kwargs \in MhKwargs, index \in 0..1, rolled_val \in Draws :
           spring' = Crossbridge(kwargs, index, rolled_val)
    /\ UNCHANGED <<xbvars, settlevars, hsvars, mh, run, report, rng, conv, resolved, rates, phase,
                   step_pc, lattice>>

(* Spring.bop of the converter or of the globular domain *)
SpringBop ==
    /\ spring.made
    /\ \E which \in {"c", "g"} :
           spring' = [spring EXCEPT !.bopped = which, !.bop = bop(spring[which])]
    /\ UNCHANGED <<xbvars, settlevars, hsvars, mh, run, report, rng, conv, resolved, rates, phase,
                   step_pc, lattice>>

NextSpring == CrossbridgeNew \/ SpringBop

SpecSpring == Init /\ [][NextSpring]_vars

----------------------------------------------------------------------------
(* hs.__init__: the next thick filament is created with its thin faces *)
LinkThickFilament ==
    /\ Len(lattice.thick) < Len(thick_thin_faces)
    /\ lattice' = [lattice EXCEPT !.made = TRUE,
                       !.thick = Append(@, thick_thin_faces[Len(@) + 1])]
    /\ UNCHANGED <<xbvars, settlevars, hsvars, mh, run, report, rng, conv, resolved, rates, phase,
                   step_pc, spring>>

(* hs.__init__: the next thin filament is given its thick faces *)
LinkThinFilament ==
    /\ Len(lattice.thick) = Len(thick_thin_faces)
    /\ Len(lattice.thin) < Len(thin_thick_faces)
    /\ lattice' = [lattice EXCEPT !.thin = Append(@, thin_thick_faces[Len(@) + 1])]
    /\ UNCHANGED <<xbvars, settlevars, hsvars, mh, run, report, rng, conv, resolved, rates, phase,
                   step_pc, spring>>

(* hs.__init__: the next titin is created between its two faces *)
LinkTitin ==
    /\ Len(lattice.thin) = Len(thin_thick_faces)
    /\ Len(lattice.titin) < Len(titin_faces)
    /\ lattice' = [lattice EXCEPT !.titin = Append(@, titin_faces[Len(@) + 1])]
    /\ UNCHANGED <<xbvars, settlevars, hsvars, mh, run, report, rng, conv, resolved, rates, phase,
                   step_pc, spring>>

(* hs.timestep on the constructed half-sarcomere, thick.transition() *)
LinkedXbUnboundStep ==
    /\ lattice_linked(lattice)
    /\ XbUnboundStep

LinkedXbBoundStep ==
    /\ lattice_linked(lattice)
    /\ XbBoundStep

(* hs.timestep on the constructed half-sarcomere, thin.transition() *)
LinkedTmStep ==
    /\ lattice_linked(lattice)
    /\ TmStep

NextLattice ==
    \/ LinkThickFilament \/ LinkThinFilament \/ LinkTitin
    \/ LinkedXbUnboundStep \/ LinkedXbBoundStep \/ LinkedTmStep

SpecLattice == Init /\ [][NextLattice]_vars

(* hs.settle runs to the end of each statement it starts *)
SpecSettleFair == SpecSettle /\ WF_vars(NextSettle)

----------------------------------------------------------------------------
(* Crossbridge kinetics *)

Bound(x) == xb_bound_to[x] # None

(* C1: every crossbridge has bound_to set if and only if its state is       *)
(* loose or tight, after construction and after any interleaving of         *)
(* Crossbridge.transition calls, refused bindings included.                 *)
C1_BoundIffAttached ==
    \A x \in XBs : Bound(x) <=> xb_state[x] \in {"loose", "tight"}

(* A binding was just refused: the caller is free and unbound while the     *)
(* other crossbridge holds a site.                                          *)
C1_Witness ==
    /\ xb_last.trans = "12"
    /\ xb_last.denied
    /\ \E x \in XBs : ~Bound(x) /\ xb_state[x] = "free"
    /\ \E y \in XBs : Bound(y) /\ xb_state[y] = "tight"

(* C2: every binding site is referenced as bound_to by at most one          *)
(* crossbridge, also after a Free-to-Loose attempt against a held site.     *)
C2_SiteHeldOnce ==
    \A s \in Sites : Cardinality({x \in XBs : xb_bound_to[x] = s}) <= 1

(* An attempt against a held site was refused and the holder is still the   *)
(* only crossbridge on its site.                                            *)
C2_Witness ==
    /\ xb_last.denied
    /\ \E s \in Sites : Cardinality({x \in XBs : xb_bound_to[x] = s}) = 1
    /\ \E x \in XBs : ~Bound(x)

(* C3: crossbridge x has bound_to = s if and only if site s holds the       *)
(* back-reference to x; binding sets both ends, unbinding clears both.      *)
C3_LinksSymmetric ==
    \A x \in XBs, s \in Sites : (xb_bound_to[x] = s) <=> (bs_bound_to[s] = x)

(* An unbinding transition just happened next to a link that is still up *)
C3_Witness ==
    /\ xb_last.trans \in {"21", "31"}
    /\ \E s \in Sites : bs_bound_to[s] = None
    /\ \E x \in XBs, s \in Sites : xb_bound_to[x] = s /\ bs_bound_to[s] = x

----------------------------------------------------------------------------
(* Relaxation *)

(* C4: whenever settle() has returned, the largest absolute node force the  *)
(* last relaxation pass reported, over thick and thin nodes, is at most     *)
(* 0.12 pN; at least one pass was made; and settle cannot return while the  *)
(* last pass reported more than 0.12 pN.                                    *)
C4_SettledBelowLimit ==
    /\ settle_pc = "returned" =>
          /\ settle_passes >= 1
          /\ converge = single_settle(thick_f, thin_f)
          /\ \A n \in ThickNodes : Abs(thick_f[n]) <= converge_limit
          /\ \A n \in ThinNodes : Abs(thin_f[n]) <= converge_limit
    /\ (settle_pc = "loop" /\ converge > converge_limit) => ~ENABLED SettleReturn

(* settle() returned after more than one pass, with a residual of exactly   *)
(* 0.12 pN on a thin node                                                   *)
C4_Witness ==
    /\ settle_pc = "returned"
    /\ settle_passes >= 2
    /\ converge = converge_limit
    /\ \E n \in ThinNodes : Abs(thin_f[n]) = converge_limit

(* C5: settle() terminates: every settle() call that has started its        *)
(* relaxation loop returns.                                                 *)
C5_SettleTerminates == (settle_pc = "loop") ~> (settle_pc = "returned")

----------------------------------------------------------------------------
(* Boundary conditions *)

(* C8: assigning z_line the same value twice in a row leaves                *)
(* lattice_spacing after the second assignment equal to lattice_spacing     *)
(* after the first.                                                         *)
C8_PoissonIdempotent == hist.z_repeat = 2 => hs.lattice_spacing = hist.ls_first

(* the same z-line, not the initial one, was assigned twice in a row with a *)
(* nonzero Poisson ratio, and the lattice spacing is not the initial one    *)
C8_Witness ==
    /\ hist.z_repeat = 2
    /\ hs.poisson_ratio # 0
    /\ hs.z_line # hs.initial_z_line
    /\ hs.lattice_spacing # hs.initial_lattice_spacing
    /\ hs.lattice_spacing = hist.ls_first

AfterZLine == hs.poisson_ratio = 0 /\ hist.z_repeat >= 1

(* C9: with Poisson ratio 0, after construction and after any sequence of   *)
(* z_line assignments, direct or through a z_line sequence of               *)
(* time_dependence, lattice_spacing equals the initial lattice spacing.     *)
C9_LatticeSpacingIsInitial ==
    AfterZLine => hs.lattice_spacing = hs.initial_lattice_spacing

(* C9, amended: with Poisson ratio 0, after construction and after any      *)
(* sequence of z_line assignments, lattice_spacing equals                   *)
(* (initial + 12.5) - 12.5 as floating-point arithmetic evaluates it: the   *)
(* initial lattice spacing exactly whenever initial + 12.5 is a float, and  *)
(* otherwise off by no more than the rounding error of that sum.            *)
C9_LatticeSpacingIsInitialRounded ==
    AfterZLine =>
        LET beta == Rat(9 + 16, 2)
            ls_0 == hs.initial_lattice_spacing
            sum == RatAdd(ls_0, beta)
        IN  /\ RatSub(hs.lattice_spacing, ls_0) = RatSub(float(sum), sum)
            /\ float(sum) = sum => hs.lattice_spacing = ls_0

(* Poisson ratio 0, a z-line other than the initial one was assigned, and   *)
(* the sum initial + 12.5 was rounded                                       *)
C9_Witness ==
    /\ AfterZLine
    /\ hs.z_line # hs.initial_z_line
    /\ hs.lattice_spacing # hs.initial_lattice_spacing
    /\ hs.current_timestep > 0

(* C10: for each of the keys lattice_spacing, z_line and pCa present in     *)
(* time_dependence, the value in effect after current_timestep is set to i  *)
(* (at construction: to 0) equals time_dependence[key][i], lattice_spacing  *)
(* included when a z_line sequence is supplied as well.                     *)
C10_TimeDependenceInEffect ==
    hist.ts_fresh =>
        LET td == hs.time_dependence
            i == hs.current_timestep
        IN  /\ HasKey(td, "lattice_spacing") => hs.lattice_spacing = td.lattice_spacing[i + 1]
            /\ HasKey(td, "z_line") => hs.z_line = td.z_line[i + 1]
            /\ HasKey(td, "pCa") => hs.pCa = td.pCa[i + 1]

----------------------------------------------------------------------------
(* Snapshots *)

(* C7: after construction and any number of timesteps, loading the          *)
(* to_dict() output into another half-sarcomere with from_dict() and        *)
(* calling to_dict() again yields an equal tree, species concentrations,    *)
(* volume and titin parameters included.                                    *)
C7_SnapshotRoundTrip == snap # <<>> => snap[2] = snap[1]

----------------------------------------------------------------------------
(* Head kinetics *)

HeadMoves ==
    {<<"free", "12", "loose">>, <<"loose", "23", "tight">>, <<"loose", "21", "free">>,
     <<"tight", "31", "free">>, <<"tight", "32", "loose">>}

(* C11: a Head.transition call makes exactly one uniform draw and at most   *)
(* one state change, one of 12, 23, 21, 31, 32 (never free to tight), and   *)
(* the first matching test wins: a loose head with p(r23) > u becomes       *)
(* tight and a tight head with p(r31) > u becomes free, whatever the        *)
(* second test of the branch says.                                          *)
C11_OneDrawFirstBranchWins ==
    mh.called =>
        /\ mh.rand = 1
        /\ \/ mh.trans = "None" /\ mh.state = mh.pre
           \/ <<mh.pre, mh.trans, mh.state>> \in HeadMoves
        /\ (mh.pre = "loose" /\ mh.p_first > mh.check) => mh.trans = "23"
        /\ (mh.pre = "tight" /\ mh.p_first > mh.check) => mh.trans = "31"

(* a loose head for which both tests match became tight *)
C11_Witness ==
    /\ mh.called
    /\ mh.pre = "loose"
    /\ mh.p_first > mh.check
    /\ (ProbOne - mh.p_second) < mh.check
    /\ mh.state = "tight"

----------------------------------------------------------------------------
(* hs.run *)

Returned == run.pc = "returned"
ReportKeys == 1..Len(report_keys)

(* when run returns, the exit status is 0 exactly when nothing was raised,  *)
(* and then every one of the time_steps timesteps and callbacks was done;   *)
(* 130 exactly for a KeyboardInterrupt; 1 for any other exception; and the  *)
(* step that raised is the last one started                                 *)
StatusAndNoRetry ==
    Returned =>
        /\ run.status = 0 <=> run.raised = "None"
        /\ run.status = 130 <=> run.raised = "KeyboardInterrupt"
        /\ run.status = 1 <=> run.raised \notin {"None", "KeyboardInterrupt"}
        /\ run.status = 0 => /\ run.i = run.time_steps
                             /\ run.started = run.time_steps
                             /\ run.completed = run.time_steps
        /\ run.status # 0 => /\ run.i < run.time_steps
                             /\ run.started = run.i + 1

(* C12 as stated: run returns 0 only after all time_steps timesteps and     *)
(* callbacks, 130 on a KeyboardInterrupt during step i and 1 on any other   *)
(* exception, in both cases without starting another timestep and with      *)
(* output holding the records of the steps before i (i records per key).    *)
C12_ReturnsRecordsBeforeStep ==
    /\ StatusAndNoRetry
    /\ (Returned /\ run.status # 0) => \A k \in ReportKeys : run.lens[k] = run.i

(* C12, amended: as above, but output holds the records stored so far: for  *)
(* each key those of the steps before i, and also that of step i when the   *)
(* exception came after _append had stored that key.                        *)
C12_ReturnsRecordsSoFar ==
    /\ StatusAndNoRetry
    /\ (Returned /\ run.status # 0) =>
           \A k \in ReportKeys :
               /\ run.lens[k] \in {run.i, run.i + 1}
               /\ run.lens[k] = run.i + 1 <=>
                      (run.raised_pc \in {"append", "bar"} /\ k <= run.appended)

(* an exception of the progress bar in the second step: two records per key *)
C12_Witness ==
    /\ Returned /\ run.status = 1 /\ run.raised_pc = "bar" /\ run.i = 1
    /\ \A k \in ReportKeys : run.lens[k] = 2

(* C13: at every return of run (status 0, 130 or 1) the lists of output all *)
(* have the same length, the number of completed timesteps (those whose     *)
(* report was recorded); with status 0 that length is time_steps.           *)
C13_OutputListsEqualLength ==
    Returned =>
        \A k \in ReportKeys :
            /\ run.lens[k] = run.completed
            /\ run.status = 0 => run.lens[k] = run.time_steps

(* C14: the statements of each timestep run in the order: boundary          *)
(* conditions of the step's index, hiding line, crossbridge transitions,    *)
(* concentrations, tropomyosin transitions, settle, callback report; so the *)
(* hiding line of a step is computed after the step's boundary conditions.  *)
C14_PhaseOrder ==
    LET order == <<"boundary_conditions", "hiding_line", "crossbridges",
                   "concentrations", "tropomyosin", "settle", "callback", "append">>
    IN  \A j \in 1..Len(run.phases) : run.phases[j] = order[j]

----------------------------------------------------------------------------
(* Random stream *)

(* C15: the random draws all come from one stream seeded once: after the    *)
(* caller has seeded it, no constructor (hs, Spring, Head, Crossbridge) and *)
(* no from_dict reseeds it, so the draws are those the seed determines.     *)
C15_SeededOnce ==
    rng.user_seed # 0 => rng.origin = "user" /\ rng.seed = rng.user_seed

----------------------------------------------------------------------------
(* Spacing conversions *)

RatAbs(r) == <<Abs(r[1]), r[2]>>
RatLeq(p, q) == p[1] * q[2] <= q[1] * p[2]
(* |a - b| <= ulps * 2^-MantissaBits * scale *)
Within(a, b, ulps, scale) ==
    RatLeq(RatAbs(RatSub(a, b)), RatMul(Rat(ulps, 2 ^ MantissaBits), scale))

(* C18 as stated: the two conversions are mutual inverses for every input,  *)
(* d10_to_ls(ls_to_d10(x)) = x and ls_to_d10(d10_to_ls(d)) = d, and         *)
(* ls_to_d10(x) = 1.5 * (x + 12.5).                                         *)
C18_MutualInverses ==
    /\ conv.fn # "None" => conv.back = conv.input
    /\ conv.fn = "ls_to_d10" =>
           conv.output = RatMul(Rat(3, 2), RatAdd(conv.input, Rat(25, 2)))

(* C18, amended: the conversions are mutual inverses up to floating-point   *)
(* rounding: the round trip differs from x by at most 8 * 2^-MantissaBits * *)
(* (|x| + 12.5), from d by at most 8 * 2^-MantissaBits * (|d| + 18.75), and *)
(* ls_to_d10(x) from 1.5 * (x + 12.5) by at most 6 * 2^-MantissaBits *      *)
(* (|x| + 12.5).                                                            *)
C18_InversesUpToRounding ==
    /\ conv.fn = "ls_to_d10" =>
           /\ Within(conv.back, conv.input, 8, RatAdd(RatAbs(conv.input), Rat(25, 2)))
           /\ Within(conv.output, RatMul(Rat(3, 2), RatAdd(conv.input, Rat(25, 2))),
                     6, RatAdd(RatAbs(conv.input), Rat(25, 2)))
    /\ conv.fn = "d10_to_ls" =>
           Within(conv.back, conv.input, 8, RatAdd(RatAbs(conv.input), Rat(75, 4)))

(* a lattice spacing the round trip does not return exactly *)
C18_Witness == conv.fn = "ls_to_d10" /\ conv.back # conv.input

----------------------------------------------------------------------------
(* Address resolution *)

(* C17: resolve_address returns the referenced entity for an address of     *)
(* kind thin_fil, thin_face, bs, tm, tm_site, thick_fil, crown, thick_face  *)
(* or xb (naming an existing filament), and for an address of any other     *)
(* kind it raises instead of returning normally without an entity.          *)
C17_ResolveOrRaise ==
    LET kind == resolved.address[1]
        thin_kinds == {"thin_fil", "thin_face", "bs", "tm", "tm_site"}
        thick_kinds == {"thick_fil", "crown", "thick_face", "xb"}
    IN  resolved.called =>
            /\ (kind \in thin_kinds /\ resolved.address[2] < thin_count) =>
                   resolved.raised = "None" /\ resolved.result[1] = kind
            /\ (kind \in thick_kinds /\ resolved.address[2] < thick_count) =>
                   resolved.raised = "None" /\ resolved.result[1] = kind
            /\ kind \notin (thin_kinds \cup thick_kinds) => resolved.raised # "None"

----------------------------------------------------------------------------
(* Detailed balance *)

BothPositive(fwd, rev) == rates.called /\ fwd.kind = "pos" /\ rev.kind = "pos"

----------------------------------------------------------------------------
(* Refused binding *)

(* C20: a Crossbridge.transition call whose draw selected '12' and whose    *)
(* site refused the binding leaves the crossbridge free with bound_to None  *)
(* and every site's link as it was, raises nothing, and still returns '12': *)
(* the draw stays consumed.                                                 *)
C20_RefusedBindingLeavesFree ==
    [][xb_last'.denied =>
           /\ xb_last'.trans = "12" /\ xb_last'.raised = "None"
           /\ bs_bound_to' = bs_bound_to
           /\ xb_bound_to' = xb_bound_to /\ xb_state' = xb_state
           /\ \E x \in XBs, s \in Sites :
                  /\ xb_state'[x] = "free" /\ xb_bound_to'[x] = None
                  /\ bs_bound_to'[s] \in XBs \ {x}]_vars

(* a binding was just refused by a site that a loosely bound crossbridge    *)
(* holds                                                                    *)
C20_Witness ==
    /\ xb_last.denied /\ xb_last.raised = "None"
    /\ \E x \in XBs, y \in XBs, s \in Sites :
           /\ x # y /\ xb_state[x] = "free" /\ xb_bound_to[x] = None
           /\ bs_bound_to[s] = y /\ xb_bound_to[y] = s /\ xb_state[y] = "loose"

----------------------------------------------------------------------------
(* Order of evaluation *)

LinksConsistent(st) ==
    /\ \A x \in XBs, s \in Sites : (st.xb_bound_to[x] = s) <=> (st.bs_bound_to[s] = x)
    /\ \A x \in XBs : st.xb_bound_to[x] # None <=> st.xb_state[x] \in {"loose", "tight"}

(* C21 as stated: for fixed draws and tip samples the crossbridge states    *)
(* and crossbridge-site links after the phase are the same for every order  *)
(* of evaluation, also when two crossbridges go for the same site.          *)
C21_OrderIndependent ==
    phase.called => phase.first = phase.second

(* C21, amended: the outcome is the same for every order unless two         *)
(* crossbridges write to the same site in the step; in every order each     *)
(* site ends up linked with at most one crossbridge, from both ends.        *)
C21_OrderIndependentUncontended ==
    phase.called =>
        /\ ~phase.contended => phase.first = phase.second
        /\ LinksConsistent(phase.first) /\ LinksConsistent(phase.second)

(* both crossbridges changed, on different sites *)
C21_Witness ==
    /\ phase.called /\ ~phase.contended /\ phase.moved = {phase.x, phase.y}
    /\ \E s \in Sites : phase.first.bs_bound_to[s] = phase.y

----------------------------------------------------------------------------
(* C22: while settle() runs no crossbridge state, no link and no          *)
(* tropomyosin state changes, and while the crossbridge and tropomyosin   *)
(* phases run no axial node position changes.                             *)
C22_PhasesKeepApart ==
    [][/\ step_pc = "settle" =>
             /\ xb_state' = xb_state
             /\ xb_bound_to' = xb_bound_to
             /\ bs_bound_to' = bs_bound_to
             /\ tm_state' = tm_state
       /\ step_pc \in {"crossbridges", "tropomyosin"} =>
             thin_axial_min' = thin_axial_min]_vars

(* settle() has moved the nodes while a crossbridge is bound and a site *)
(* is open                                                              *)
C22_Witness ==
    /\ step_pc = "settle"
    /\ \E a \in AxialMins : a < thin_axial_min
    /\ \E x \in XBs : xb_bound_to[x] # None
    /\ \E s \in Sites : tm_state[s] = 2

----------------------------------------------------------------------------
(* C23: from a freshly constructed half-sarcomere, run(time_steps = N)    *)
(* with every time_dependence sequence of length N completes all N        *)
(* timesteps with exit status 0 and reads no index past the end of a      *)
(* sequence.                                                              *)
C23_TraceSupportsRun ==
    (/\ run.pc = "returned"
     /\ run.time_steps = TdLen
     /\ \E key \in DOMAIN hs.time_dependence : Len(hs.time_dependence[key]) = TdLen
     /\ run.raised \in {"None", "IndexError"})
        => /\ run.status = 0
           /\ run.completed = TdLen
           /\ run.raised = "None"

----------------------------------------------------------------------------
(* C24: a free crossbridge becomes loose in a step only if the            *)
(* permissiveness of its nearest site is nonzero: whenever a crossbridge  *)
(* goes from free to loose, or gains a link, the site it is bound to had  *)
(* tropomyosin state 2 at the moment of binding.                          *)
C24_BindsOnlyPermissive ==
    [][\A x \in XBs :
          (\/ xb_state[x] = "free" /\ xb_state'[x] = "loose"
           \/ xb_bound_to[x] = None /\ xb_bound_to'[x] # None)
             => /\ xb_bound_to'[x] # None
                /\ tm_state[xb_bound_to'[x]] = 2]_vars

(* a crossbridge has just bound to an open site while another site is *)
(* closed                                                             *)
C24_Witness ==
    /\ xb_last.trans = "12"
    /\ ~xb_last.denied
    /\ \E x \in XBs : /\ xb_state[x] = "loose"
                      /\ xb_bound_to[x] # None
                      /\ tm_state[xb_bound_to[x]] = 2
    /\ \E s \in Sites : tm_state[s] # 2 /\ bs_bound_to[s] = None

----------------------------------------------------------------------------
(* C25: in every reachable state after construction the stored fluid      *)
(* volume equals the volume formula at the current lattice_spacing and    *)
(* the current z_line.                                                    *)
C25_VolumeCurrent == hs.volume = volume_of(hs.lattice_spacing, hs.z_line)

----------------------------------------------------------------------------
(* C26: for both springs of every crossbridge the thermal standard        *)
(* deviation bop() draws with equals sqrt(kT / k_w) for the spring's      *)
(* current weak stiffness k_w, also when k_w was overridden through       *)
(* mh_c_kw or mh_g_kw.                                                    *)
C26_DeviationFollowsStiffness ==
    spring.made =>
        /\ spring.c.stand_dev = sqrt(RatDiv(k_t, RatInt(spring.c.k_w)))
        /\ spring.g.stand_dev = sqrt(RatDiv(k_t, RatInt(spring.g.k_w)))
        /\ spring.bopped # "None" =>
               spring.bop.scale = sqrt(RatDiv(k_t, RatInt(spring[spring.bopped].k_w)))

----------------------------------------------------------------------------
(* C27: in each report made after a timestep, bound_tm times the volume   *)
(* is the number of tropomyosin sites whose state is not 0 at the moment  *)
(* the report is taken, free_tm times the volume is the number of sites   *)
(* in state 0, and the two counts sum to the number of sites.             *)
C27_ReportCountsCurrent ==
    run.pc \in {"append", "bar"} =>
        /\ Len(report) = 1
        /\ report[1].bound_tm.count = Cardinality({s \in Sites : tm_state[s] # 0})
        /\ report[1].free_tm.count = Cardinality({s \in Sites : tm_state[s] = 0})
        /\ report[1].bound_tm.count + report[1].free_tm.count = Cardinality(Sites)

----------------------------------------------------------------------------
(* thick filament i's face j, thin filament a's face b (all from 0) *)
thin_face_of(l, i, j) == l.thick[i + 1][j + 1]
thick_face_of(l, a, b) == l.thin[a + 1][b + 1]

ThickFaces == {<<i, j>> : i \in 0..(thick_count - 1), j \in 0..5}
ThinFaces == {<<a, b>> : a \in 0..(thin_count - 1), b \in 0..2}

TopologyConsistent(l) ==
    /\ \A tf \in ThickFaces, af \in ThinFaces :
           thin_face_of(l, tf[1], tf[2]) = af <=> thick_face_of(l, af[1], af[2]) = tf
    /\ Cardinality(ThickFaces) = Cardinality(ThinFaces)
    /\ \A tf \in ThickFaces : thin_face_of(l, tf[1], tf[2]) \in ThinFaces
    /\ \A tf, other \in ThickFaces :
           thin_face_of(l, tf[1], tf[2]) = thin_face_of(l, other[1], other[2]) => tf = other
    /\ \A n \in 1..Len(l.titin) :
           /\ l.titin[n][1] \in ThickFaces
           /\ l.titin[n][2] = thin_face_of(l, l.titin[n][1][1], l.titin[n][1][2])
    /\ \A tf \in ThickFaces :
           Cardinality({n \in 1..Len(l.titin) : l.titin[n][1] = tf}) = 1

(* C28: the lattice topology built at construction is mutually consistent *)
(* (thick face (i,j) faces thin face (a,b) iff thin face (a,b) faces      *)
(* thick face (i,j); the thick and thin faces are paired one-to-one; each *)
(* thick face has exactly one titin, joined to the thin face facing it)   *)
(* when construction completes, and no timestep changes it afterwards.    *)
C28_TopologyConsistentAndFixed ==
    [][/\ (~lattice_linked(lattice) /\ lattice_linked(lattice'))
              => TopologyConsistent(lattice')
       /\ lattice_linked(lattice) => lattice' = lattice]_vars

(* the constructed lattice after a timestep bound a crossbridge *)
C28_Witness ==
    /\ lattice_linked(lattice)
    /\ Cardinality(ThickFaces) = 24
    /\ \E x \in XBs : xb_bound_to[x] # None
    /\ \E s \in Sites : tm_state[s] = 1

----------------------------------------------------------------------------
(* C29: the label Crossbridge.transition returns matches the change it    *)
(* made: '12' exactly when the crossbridge ends loose with bound_to set,  *)
(* '21' or '31' exactly when it ends free with bound_to None after being  *)
(* bound, None exactly when state and bound_to are unchanged.             *)
C29_LabelMatchesChange ==
    [][tm_state' = tm_state =>
          /\ xb_last'.trans = "12" <=>
                 \E x \in XBs : /\ xb_bound_to[x] = None
                                /\ xb_bound_to'[x] # None
                                /\ xb_state'[x] = "loose"
          /\ xb_last'.trans \in {"21", "31"} <=>
                 \E x \in XBs : /\ xb_bound_to[x] # None
                                /\ xb_bound_to'[x] = None
                                /\ xb_state'[x] = "free"
          /\ xb_last'.trans = "None" <=>
                 (xb_state' = xb_state /\ xb_bound_to' = xb_bound_to)]_vars

----------------------------------------------------------------------------
(* every draw Head.transition can be called with *)
AllDraws == [check : Draws, p_first : Probs, p_second : Probs]

(* C30: for a bound crossbridge (loose or tight) the outcome of a         *)
(* transition call - new state, returned label, links - is the same for   *)
(* every tropomyosin state, hence every permissiveness, of the site it is *)
(* bound to, given the same draw and geometry.                            *)
C30_BoundOutcomeIgnoresPermissiveness ==
    \A x \in XBs :
        xb_bound_to[x] # None =>
            \A d \in AllDraws, tip_x \in TipXs, new \in 0..2 :
                LET st == links_of(xb_state, xb_bound_to, bs_bound_to)
                    site == xb_bound_to[x]
                    other == [tm_state EXCEPT ![site] = new]
                IN  /\ xb_call(st, tm_state, x, tip_x, d) = xb_call(st, other, x, tip_x, d)
                    /\ Head_transition(xb_state[x], d.check, permissiveness(tm_state, site),
                                       d.p_first, d.p_second)
                       = Head_transition(xb_state[x], d.check, permissiveness(other, site),
                                         d.p_first, d.p_second)

(* a crossbridge went from loose to tight on a site whose tropomyosin is *)
(* no longer open                                                        *)
C30_Witness ==
    /\ xb_last.trans = "23"
    /\ \E x \in XBs : /\ xb_state[x] = "tight"
                      /\ xb_bound_to[x] # None
                      /\ tm_state[xb_bound_to[x]] = 0

============================================================================
